---- MODULE Spec2Model ----
(***************************************************************************)
(* A model of the managed AMQP consumer: the broker client                 *)
(* (RabbitMQService), the reconnection controller (ReconnectionService),   *)
(* the consumer engine (ConsumerService) and the message pipeline          *)
(* (MessageProcessor, DeduplicationService, WebhookService).               *)
(*                                                                         *)
(* An async function is a process whose positions are its awaits; the code *)
(* between two awaits runs atomically (Node's run-to-completion), so it is *)
(* one action.  An EventEmitter.emit runs its listeners synchronously, so  *)
(* a listener's code is part of the emitting action.                       *)
(***************************************************************************)
EXTENDS Integers, FiniteSets, Sequences, TLC

\* ------------------------------------------------------------------ bounds
MaxTimers == 2
MaxProcs == 2
MaxTags == 3
MaxDeliveryTag == 2
MaxHandlers == 2
MaxProcessed == 1
MaxShutdownCalls == 2
MaxSends == 2

\* ------------------------------------------------------- program constants
maxAttempts == 10
DebounceMs == 3000
TickMs == 1000
retryAttempts == 3

TimerIds == 1..MaxTimers
NoTimer == 0

Queues == {"q1", "q2"}
QueueOrder == <<"q1", "q2">>
Tags == 1..MaxTags
NoTag == 0
DeliveryTags == 1..MaxDeliveryTag
HandlerIds == 1..MaxHandlers
Messages == {"m1", "m2"}
\* The queue the messages are published to.
MsgQueue == "q1"
\* A content: the first 15 bytes (20 base64 characters), and whether the whole
\* text parses as JSON.
Content == [m1 |-> [prefix |-> "p", json |-> TRUE],
            m2 |-> [prefix |-> "p", json |-> FALSE]]
\* What the webhook answers to one POST: a status, or nothing (NoResponse).
NoResponse == 0
Responses == {200, 404, 503, NoResponse}
\* The hour of the day (in the configured timezone) a delivery is processed at.
Hours == {7, 8, 20, 21}
\* The businessHours a queue is configured with: the default window, or null
\* (validateQueueConfig accepts a falsy value).
NoBusinessHours == [start |-> -1, end |-> -1]
BusinessHoursConfigs == {[start |-> 8, end |-> 21], NoBusinessHours}
Callers == {"api", "restore", "reestab"}

RmqEvents == {"connectionError", "connectionClosed", "channelError",
              "channelClosed", "needsReconnection"}
FailureEvents == {"connectionError", "connectionClosed", "channelError", "channelClosed"}

VARIABLES
    shutdownPc,        \* shutdown(): "idle" | "disconnect" | "done"
    \* RabbitMQService
    connection,        \* "null" | "open" | "errored" | "closed"
    channel,           \* "null" | "open" | "errored" | "closed"
    isConnecting,
    rmqShuttingDown,
    rmqListeners,      \* event names of rabbitMQService that still have listeners
    \* ReconnectionService
    isReconnecting,
    reconnectAttempts,
    elapsed,           \* Date.now() - lastReconnectTime, capped at DebounceMs
    reconnectTimeout,  \* the timer handle: NoTimer or a timer id
    shuttingDown,
    rcListeners,       \* event names of reconnectionService that still have listeners
    pendingTimers,     \* the reconnect timers that are set and have not fired
    attSleep,          \* attemptReconnection invocations awaiting sleep(1000)
    attConnect,        \* attemptReconnection invocations awaiting connect()
    \* the broker
    brokerQueues,      \* the queues that exist at the broker
    subs,              \* the subscriptions registered on the current channel and not cancelled
    \* ConsumerService
    isInitialized,
    activeConsumers,   \* queue -> [active, consumerTag, paused]
    starts,            \* caller -> its startConsuming invocation
    reestab,           \* the handleReconnectionSuccess invocation
    restore,           \* the restorePersistedQueues invocation
    stop,              \* the stopConsuming invocation of POST /stop
    health,            \* the sweep of the queue health monitor
    cancels,           \* the queues whose cancellation awaits removeQueueConfig
    shutdown,          \* shutdown(): its stop loop, the calls it made, its invocations
    \* PersistenceService
    persisted,         \* the queues that have a stored configuration
    \* the messages and the pipeline
    brokerMsgs,        \* broker: message -> [st, tag, redelivered]
    nextTag,           \* the next delivery tag of the current channel
    handlers,          \* the message handler invocations in flight
    processedMessages, \* DeduplicationService.processedMessages, in insertion order
    processingMessages,\* keys of DeduplicationService.processingMessages
    everMarked,        \* history: every fingerprint markMessageProcessed was called on
    lastResult,        \* observation: what the processMessage call of this step returned
    \* what the last step emitted
    lastEvent,         \* the rabbitMQService event emitted by the last step, or "none"
    schedCalled,       \* whether that step called scheduleReconnection
    emitted,           \* the ReconnectionService events emitted by the last step
    engineEvents,      \* what the engine did in the last step: the events it emitted
                       \* and the calls it made to the store, the broker and the webhook
    \* PersistenceService, at the level of its files
    isReady,
    files,             \* path -> the JSON document of the file, or NoFile
    psCall,            \* observation: the last call of PersistenceService and its outcome
    \* WebhookService, on its own
    whStats,           \* stats: [sent, failed, retries]
    whCall,            \* the sendWebhookWithRetry invocation
    \* RabbitMQService.ackMessage / nackMessage, called on their own
    chCall,            \* observation: the last call and what it did
    \* the pacing of one queue, on its own
    pacing,            \* [config, interval, inv, last]
    \* RabbitMQService.safeChannelOperation, called on its own
    opCall,            \* observation: the last call and what it did
    \* the validation at the head of startConsuming, on its own
    vcCall,            \* observation: the call, what it was given and what it stored
    \* DeduplicationService.processedMessages, on its own
    dedup,             \* [processed, op, before]
    \* PersistenceService: mutations that run at the same time
    psOps              \* invocation -> [pc, op, q, cfg, seen, overlapped]

rmqVars == <<connection, channel, isConnecting, rmqShuttingDown, rmqListeners>>
rcVars == <<isReconnecting, reconnectAttempts, elapsed, reconnectTimeout, shuttingDown,
            rcListeners, pendingTimers, attSleep, attConnect>>
rcRest == <<isReconnecting, reconnectAttempts, elapsed, shuttingDown, rcListeners,
            attSleep, attConnect>>
brokerVars == <<brokerQueues, subs>>
lifeVars == <<stop, health, cancels, shutdown>>
engVars == <<isInitialized, shutdownPc, activeConsumers, starts, reestab, restore, persisted,
             lifeVars>>
obsVars == <<lastEvent, schedCalled, emitted, engineEvents>>
pipeVars == <<brokerMsgs, nextTag, handlers, processedMessages, processingMessages,
              everMarked, lastResult>>
psVars == <<isReady, files, psCall>>
\* The state of the components that are exercised on their own.
whVars == <<whStats, whCall>>
chVars == <<chCall>>
paceVars == <<pacing>>
auxVars == <<opCall, vcCall, dedup, psOps>>
unitVars == <<psVars, whVars, chVars, paceVars, auxVars>>
vars == <<rmqVars, rcVars, brokerVars, engVars, obsVars, pipeVars, unitVars>>

\* The engine takes no step.
EngineIdle == UNCHANGED <<rmqVars, rcVars, brokerVars, engVars, obsVars, pipeVars>>

\* What a step of the engine emitted and called; it runs no component on its own.
Emits(S) == engineEvents' = S /\ UNCHANGED unitVars

\* ------------------------------------------------------------ RabbitMQService

\* isChannelReady() of a client whose fields have these values.
ChannelReady(ch, conn, down) == ch = "open" /\ conn = "open" /\ ~down

IsChannelReady == ChannelReady(channel, connection, rmqShuttingDown)

\* The listeners the constructors register on rabbitMQService.
SetupEventHandlers == RmqEvents \cup {"consumerCancelled"}

\* cleanup(): the listeners that remain on rabbitMQService afterwards.
CleanupListeners(ls) == {}

\* ---------------------------------------------------------- ReconnectionService

\* The first four guards of shouldAttemptReconnection().
PassesGuardsNoDebounce(ready) ==
    /\ ~shuttingDown
    /\ ~isReconnecting
    /\ ~ready

PassesGuards(ready) ==
    /\ ~shuttingDown
    /\ ~isReconnecting
    /\ ~ready
    /\ elapsed >= DebounceMs

ShouldAttemptReconnection(ready) ==
    PassesGuards(ready) /\ reconnectAttempts < maxAttempts

\* shouldAttemptReconnection() emits maxAttemptsReached when it gives up.
MaxAttemptsEmitted(ready) ==
    IF PassesGuards(ready) /\ reconnectAttempts >= maxAttempts
    THEN {"maxAttemptsReached"} ELSE {}

\* clearTimeout(handle) on the timer queue.
ClearTimeoutForgotten(handle, timers) == timers
ClearTimeout(handle, timers) == timers \ {handle}

\* setTimeout: the id of the new timer.
NewTimerId(timers) ==
    IF timers = TimerIds THEN MaxTimers
    ELSE CHOOSE i \in TimerIds \ timers : \A j \in TimerIds \ timers : i <= j

\* scheduleReconnection(reason) in a state where isChannelReady() is `ready`.
ScheduleReconnection(ready) ==
    IF ShouldAttemptReconnection(ready)
    THEN LET cleared == IF reconnectTimeout # NoTimer
                        THEN ClearTimeout(reconnectTimeout, pendingTimers)
                        ELSE pendingTimers
             id == NewTimerId(cleared)
         IN /\ reconnectTimeout' = id
            /\ pendingTimers' = cleared \cup {id}
    ELSE UNCHANGED <<reconnectTimeout, pendingTimers>>

\* rabbitMQService.emit(e): the listener of ReconnectionService, when it is
\* still registered, calls scheduleReconnection unless shutting down.
RmqEmit(e, ready) ==
    /\ lastEvent' = e
    /\ IF e \in rmqListeners /\ ~shuttingDown
       THEN /\ schedCalled' = TRUE
            /\ emitted' = MaxAttemptsEmitted(ready)
            /\ ScheduleReconnection(ready)
       ELSE /\ schedCalled' = FALSE
            /\ emitted' = {}
            /\ UNCHANGED <<reconnectTimeout, pendingTimers>>

RmqSilent == lastEvent' = "none" /\ schedCalled' = FALSE /\ emitted' = {}

\* A step in which the engine emits nothing and calls nothing.
EmitRmqEvent(e, ready) == RmqEmit(e, ready) /\ Emits({})
NoEmit == RmqSilent /\ Emits({})

\* ------------------------------------------------------------- ConsumerService

IdleStart == [pc |-> "idle", queue |-> "-", dead |-> FALSE]
Absent == [active |-> FALSE, consumerTag |-> NoTag, paused |-> FALSE]
IdleReestab == [pc |-> "idle", cur |-> "-", todo |-> <<>>,
                saved |-> [q \in Queues |-> Absent], dead |-> FALSE]
\* restored, failed, skipped: the counters of the loop; total: queueNames.length.
IdleRestore == [pc |-> "idle", cur |-> "-", todo |-> <<>>, toRemove |-> {},
                fromInit |-> FALSE, restored |-> 0, failed |-> 0, skipped |-> 0,
                total |-> 0]
IdleStop == [pc |-> "idle", queue |-> "-", tag |-> NoTag, dead |-> FALSE]
\* snap: the queues of the document removeQueueConfig loaded.
IdleHealth == [pc |-> "idle", cur |-> "-", todo |-> <<>>, dead |-> FALSE,
               hadConfig |-> FALSE, snap |-> {}]
\* queues: the queues that were active when shutdown() began; log: the calls
\* shutdown() made, in order; calls: how often shutdown() was called; failed:
\* the queues whose stopConsuming threw into the catch of the stop loop.
IdleShutdown == [queues |-> {}, todo |-> <<>>, cur |-> "-", tag |-> NoTag,
                 dead |-> FALSE, log |-> <<>>, calls |-> 0, failed |-> {}]

\* A call that shutdown() makes.
Step(name, q) == [step |-> name, queue |-> q]

\* An event the engine emits, or a call it makes, about queue q.
Event(e, q, reason) == [event |-> e, queue |-> q, reason |-> reason]

\* emit('queuesRestored', { restored, failed, skipped, removed })
QueuesRestored(result) ==
    [event |-> "queuesRestored", queue |-> "-", reason |-> "-", result |-> result]

\* The queues of S in iteration order.
SeqOf(S) == SelectSeq(QueueOrder, LAMBDA q : q \in S)

ActiveQueues(act) == {q \in Queues : act[q].active}

\* The engine's state as a value, so that the code run between two awaits
\* composes; needs: the step emits needsReconnection (safeChannelOperation).
Cur == [act |-> activeConsumers, pers |-> persisted, starts |-> starts,
        reestab |-> reestab, restore |-> restore, needs |-> FALSE, events |-> {}]

\* safeChannelOperation emits needsReconnection through setImmediate; the
\* emission is taken in the step that requests it.
Apply(E) ==
    /\ activeConsumers' = E.act
    /\ persisted' = E.pers
    /\ starts' = E.starts
    /\ reestab' = E.reestab
    /\ restore' = E.restore
    /\ Emits(E.events)
    /\ IF E.needs
       THEN RmqEmit("needsReconnection", IsChannelReady)
       ELSE RmqSilent /\ UNCHANGED <<reconnectTimeout, pendingTimers>>

\* startConsuming(q) for caller c up to its first await (checkQueue):
\* "already" | "notReady" | "suspended".
StartCall(act, q, ready) ==
    IF act[q].active THEN "already"
    ELSE IF ~ready THEN "notReady"
    ELSE "suspended"

\* The for loop of handleReconnectionSuccess() from its next entry up to the
\* next await: checkQueue throws at once while the channel is not ready.
ReestabNext(E, ready) ==
    LET todo == E.reestab.todo IN
    IF todo = <<>> THEN [E EXCEPT !.reestab = IdleReestab]
    ELSE IF ~ready THEN [E EXCEPT !.reestab = IdleReestab, !.needs = TRUE]
    ELSE [E EXCEPT !.reestab = [@ EXCEPT !.pc = "check", !.cur = Head(todo),
                                         !.todo = Tail(todo), !.dead = FALSE]]

RECURSIVE DropActive(_, _)
DropActive(todo, act) ==
    IF todo = <<>> THEN todo
    ELSE IF act[Head(todo)].active THEN DropActive(Tail(todo), act)
    ELSE todo

\* The for loop of restorePersistedQueues() from its next entry up to the next
\* await, and the removal of the names marked for removal after the loop.
RestoreNext(E, ready) ==
    LET rem == DropActive(E.restore.todo, E.act)
        skipped == E.restore.skipped + (Len(E.restore.todo) - Len(rem))
        \* while the channel is not ready every entry left is skipped, or its
        \* startConsuming throws at once
        active == Cardinality({i \in 1..Len(rem) : E.act[rem[i]].active})
        result == [restored |-> E.restore.restored,
                   failed |-> E.restore.failed + (Len(rem) - active),
                   skipped |-> skipped + active,
                   removed |-> Cardinality(E.restore.toRemove)]
    IN
    IF rem = <<>> \/ ~ready
    THEN [E EXCEPT !.restore = IdleRestore,
                   !.pers = E.pers \ E.restore.toRemove,
                   !.events = (@ \cup {Event("removeQueueConfig", q, "restore_not_found") :
                                          q \in E.restore.toRemove})
                              \cup (IF E.restore.total > 0
                                    THEN {QueuesRestored(result)} ELSE {}),
                   !.needs = E.needs \/ rem # <<>>]
    ELSE [E EXCEPT !.restore = [@ EXCEPT !.pc = "start", !.cur = Head(rem),
                                         !.todo = Tail(rem), !.skipped = skipped],
                   !.starts = [@ EXCEPT !["restore"] =
                                  [pc |-> "check", queue |-> Head(rem), dead |-> FALSE]]]

\* handleReconnectionSuccess() removes from the store a queue whose error says
\* 'does not exist'.
RemoveNotFound(E, q) ==
    [E EXCEPT !.pers = @ \ {q},
              !.events = @ \cup {Event("removeQueueConfig", q, "reestablish_not_found")}]

\* The caller's code after its startConsuming(q) returned.
StartReturned(E, c, ready) ==
    LET q == E.starts[c].queue
        E1 == [E EXCEPT !.starts = [@ EXCEPT ![c] = IdleStart]]
    IN CASE c = "api" -> E1
         [] c = "reestab" ->
              \* Restaurar estado
              ReestabNext([E1 EXCEPT !.act = IF E1.act[q].active
                              THEN [@ EXCEPT ![q].paused = E.reestab.saved[q].paused]
                              ELSE @], ready)
         [] c = "restore" -> RestoreNext([E1 EXCEPT !.restore.restored = @ + 1], ready)

\* restorePersistedQueues() marks the queue for removal when the error of
\* startConsuming reads not_found, 'does not exist' or 'no queue', or has the
\* code 404.
MarksForRemovalAlways(notFound, dne) == TRUE
MarksForRemoval(notFound, dne) == notFound \/ dne

\* The caller's code after its startConsuming(q) threw; notFound: a 404 of the
\* broker; dne: the error message contains 'does not exist'.
StartThrew(E, c, notFound, dne, ready) ==
    LET q == E.starts[c].queue
        E1 == [E EXCEPT !.starts = [@ EXCEPT ![c] = IdleStart]]
    IN CASE c = "api" -> E1
         [] c = "reestab" ->
              ReestabNext(IF dne THEN RemoveNotFound(E1, q) ELSE E1, ready)
         [] c = "restore" ->
              RestoreNext([E1 EXCEPT !.restore.failed = @ + 1,
                                     !.restore.toRemove =
                                         IF MarksForRemoval(notFound, dne)
                                         THEN @ \cup {q} ELSE @], ready)

\* The consumer tag the broker assigns.
FreeTags == Tags \ ({s.tag : s \in subs} \cup {activeConsumers[q].consumerTag : q \in Queues})
NewTag == CHOOSE t \in FreeTags : \A u \in FreeTags : t <= u

\* Every operation in flight on the channel fails when the channel goes away.
KillStarts(st) == [c \in Callers |->
    IF st[c].pc \in {"check", "consume"} THEN [st[c] EXCEPT !.dead = TRUE] ELSE st[c]]
KillReestab(r) == IF r.pc = "check" THEN [r EXCEPT !.dead = TRUE] ELSE r
KillStop(s) == IF s.pc = "cancel" THEN [s EXCEPT !.dead = TRUE] ELSE s
KillHealth(h) == IF h.pc = "check" THEN [h EXCEPT !.dead = TRUE] ELSE h
KillShutdown(s) == IF s.cur # "-" THEN [s EXCEPT !.dead = TRUE] ELSE s

\* ------------------------------------------------------- the message pipeline

\* generateMessageId(msg): `${deliveryTag}_${base64(content).slice(0, 20)}`
GenerateMessageId(tag, m) == <<tag, Content[m].prefix>>

Range(sq) == {sq[i] : i \in 1..Len(sq)}

IsMessageProcessedNever(processed, f) == FALSE
IsMessageProcessed(processed, f) == f \in Range(processed)

\* markMessageProcessed(f): Set.add keeps the insertion order.
MarkMessageProcessed(processed, f) ==
    IF f \in Range(processed) THEN processed ELSE Append(processed, f)

CleanupNewestMessages(processed) ==
    IF Len(processed) > MaxProcessed THEN SubSeq(processed, 1, MaxProcessed) ELSE processed
\* cleanupOldMessages(): the oldest entries beyond maxProcessedMessages go.
CleanupOldMessages(processed) ==
    IF Len(processed) > MaxProcessed
    THEN SubSeq(processed, Len(processed) - MaxProcessed + 1, Len(processed))
    ELSE processed

RemoveMessageFromProcessingForgotten(processing, f) == processing
RemoveMessageFromProcessing(processing, f) == processing \ {f}

\* ackMessage(msg) / nackMessage(msg, false, true): channel.ack / channel.nack
\* when the channel is ready, addressed by delivery tag on the current channel.
AckMessage(bm, tag, ready) ==
    [m \in Messages |->
        IF ready /\ bm[m].st = "unacked" /\ bm[m].tag = tag
        THEN [bm[m] EXCEPT !.st = "gone", !.tag = NoTag] ELSE bm[m]]

NackMessage(bm, tag, ready) ==
    [m \in Messages |->
        IF ready /\ bm[m].st = "unacked" /\ bm[m].tag = tag
        THEN [bm[m] EXCEPT !.st = "ready", !.tag = NoTag] ELSE bm[m]]

\* What channel.ack / channel.nack does when it is called: nothing goes wrong,
\* the delivery tag is unknown on the channel (406), or another error.
Faults == {"none", "406", "other"}
NoChCall == [op |-> "none", tag |-> NoTag, ready |-> FALSE, issued |-> FALSE,
             fault |-> "none", raised |-> FALSE, emits |-> {}]

\* ackMessage(msg) / nackMessage(msg, false, true): the channel operation is
\* issued when isChannelReady(); the catch block returns on a 406 and falls
\* through on every other error, and emits nothing.
SafeAckUnguarded(op, tag, ready, fault) ==
    [op |-> op, tag |-> tag, ready |-> ready, issued |-> TRUE,
     fault |-> fault, raised |-> FALSE, emits |-> {}]

SafeAck(op, tag, ready, fault) ==
    [op |-> op, tag |-> tag, ready |-> ready, issued |-> ready,
     fault |-> IF ready THEN fault ELSE "none", raised |-> FALSE, emits |-> {}]

\* The delivery tag is that of an unacknowledged delivery of the channel.
KnownTag(bm, tag) == \E m \in Messages : bm[m].st = "unacked" /\ bm[m].tag = tag

\* The broker requeues every unacknowledged delivery of a channel that closed.
Requeue(bm) ==
    [m \in Messages |->
        IF bm[m].st = "unacked" THEN [bm[m] EXCEPT !.st = "ready", !.tag = NoTag]
        ELSE bm[m]]

\* validateStatus: (status) => status < 500; axios rejects without a response.
ValidateStatus(status) == status < 500
SendWebhookResolves(r) == r # NoResponse /\ ValidateStatus(r)

IsClientError(r) == r # NoResponse /\ r >= 400 /\ r < 500

\* isWithinBusinessHours(businessHours) at the hour `hour`
IsWithinBusinessHoursInclusive(hour, businessHours) ==
    hour >= businessHours.start /\ hour <= businessHours.end
IsWithinBusinessHours(hour, businessHours) ==
    hour >= businessHours.start /\ hour < businessHours.end

\* shouldRetryMessage(error), error.status being the response's status
ShouldRetryMessage(r) == ~IsClientError(r)

\* sendWebhookWithRetry after the POST of attempt `attempt` settled with r: it
\* returns ("resolved"), sleeps and posts again ("again"), or throws
\* ("rejected").
AfterPost(attempt, r) ==
    IF SendWebhookResolves(r) THEN "resolved"
    ELSE IF ~IsClientError(r) /\ attempt < retryAttempts THEN "again"
    ELSE "rejected"

\* What processMessage returns, and the counter it increments, for that
\* outcome of sendToWebhook.
Disposition(outcome, r) ==
    IF outcome = "resolved"
    THEN [action |-> "ack", reason |-> "success", inc |-> {"processed"}]
    ELSE IF ShouldRetryMessage(r)
    THEN [action |-> "nack", reason |-> "webhook_retry", inc |-> {"failed"}]
    ELSE [action |-> "ack", reason |-> "webhook_permanent_error", inc |-> {"failed"}]

\* The counters of WebhookService after a POST settled with r: _updateStats
\* in sendWebhook, and stats.retries++ in the catch block of
\* sendWebhookWithRetry, which runs for every POST that failed.
UpdateStats(stats, r) ==
    IF SendWebhookResolves(r)
    THEN [stats EXCEPT !.sent = @ + 1]
    ELSE [stats EXCEPT !.failed = @ + 1, !.retries = @ + 1]

\* A message handler invocation.  own: the handler is in its pacing sleep and
\* the configuration object it read from the table when the delivery arrived
\* is still the one in the table; paused: the paused field of that object once
\* it is no longer in the table, then the value processMessage was called
\* with; stale: the channel the delivery arrived on has closed.  The other
\* fields record what processMessage was entered with.
IdleHandler == [pc |-> "idle", msg |-> "-", tag |-> NoTag, attempt |-> 0,
                own |-> FALSE, paused |-> FALSE,
                redelivered |-> FALSE, wasMarked |-> FALSE, inProcessed |-> FALSE,
                tablePaused |-> FALSE, outside |-> FALSE, stale |-> FALSE]

\* The channel closes: the invocations in flight hold deliveries of a channel
\* that is gone; nothing tells them.
OutliveChannel(hs) ==
    [h \in HandlerIds |->
        IF hs[h].pc # "idle" THEN [hs[h] EXCEPT !.stale = TRUE] ELSE hs[h]]

\* The hour is before the start or at or after the end of the window.
OutsideWindow(hour, businessHours) ==
    /\ businessHours # NoBusinessHours
    /\ (hour < businessHours.start \/ hour >= businessHours.end)

\* consumerConfig.paused as the handler h reads it after its pacing sleep.
ConfigPaused(h) ==
    IF h.own THEN activeConsumers[MsgQueue].paused ELSE h.paused

\* The handlers of deliveries that arrived under a configuration object that
\* the step removes from the table or replaces (a new object has a new
\* consumer tag) keep the object they hold.
DetachHandlers(act) ==
    [h \in HandlerIds |->
        IF /\ handlers[h].pc # "idle" /\ handlers[h].own
           /\ \/ act[MsgQueue].active # activeConsumers[MsgQueue].active
              \/ act[MsgQueue].consumerTag # activeConsumers[MsgQueue].consumerTag
        THEN [handlers[h] EXCEPT !.own = FALSE,
                                 !.paused = activeConsumers[MsgQueue].paused]
        ELSE handlers[h]]

NoResult == [action |-> "none", reason |-> "none", inc |-> {}, calls |-> {},
             fp |-> <<NoTag, "-">>, response |-> NoResponse,
             redelivered |-> FALSE, wasMarked |-> FALSE, inProcessed |-> FALSE,
             paused |-> FALSE, tablePaused |-> FALSE, outside |-> FALSE,
             fallback |-> FALSE]

Result(h, action, reason, inc, calls, r) ==
    [action |-> action, reason |-> reason, inc |-> inc, calls |-> calls,
     fp |-> GenerateMessageId(h.tag, h.msg), response |-> r,
     redelivered |-> h.redelivered, wasMarked |-> h.wasMarked,
     inProcessed |-> h.inProcessed, paused |-> h.paused,
     tablePaused |-> h.tablePaused, outside |-> h.outside, fallback |-> FALSE]

\* A step outside the pipeline that leaves the table as act.
PipeAfter(act) ==
    /\ lastResult' = NoResult
    /\ handlers' = DetachHandlers(act)
    /\ UNCHANGED <<brokerMsgs, nextTag, processedMessages, processingMessages,
                   everMarked>>

\* Steps outside the pipeline and the table leave the pipeline alone.
PipeUnchanged == PipeAfter(activeConsumers)

FreeHandler == CHOOSE h \in HandlerIds :
    handlers[h].pc = "idle" /\ \A g \in HandlerIds : handlers[g].pc = "idle" => h <= g

\* app.start() starts the HTTP server after initialize() has returned, that is
\* after the restore that initialize() runs.
ServerListening == isInitialized /\ ~(restore.pc # "idle" /\ restore.fromInit)

\* ------------------------------------------------------------------ actions

\* The broker or the network fails the channel or the connection; amqplib emits
\* 'error' and then 'close' on the object, which _setupEventHandlers forwards.
BrokerFailure(e) ==
    /\ e \in FailureEvents
    /\ CASE e = "channelError" -> channel = "open"
         [] e = "channelClosed" -> channel \in {"open", "errored"}
         [] e = "connectionError" -> connection = "open"
         [] e = "connectionClosed" -> connection \in {"open", "errored"}
    /\ channel' = CASE e = "channelError" -> "errored"
                    [] e = "channelClosed" -> "closed"
                    [] OTHER -> IF channel \in {"open", "errored"} THEN "closed" ELSE channel
    /\ connection' = CASE e = "connectionError" -> "errored"
                       [] e = "connectionClosed" -> "closed"
                       [] OTHER -> connection
    /\ subs' = {}
    /\ starts' = KillStarts(starts)
    /\ reestab' = KillReestab(reestab)
    /\ EmitRmqEvent(e, ChannelReady(channel', connection', rmqShuttingDown))
    /\ brokerMsgs' = Requeue(brokerMsgs)
    /\ lastResult' = NoResult
    /\ handlers' = OutliveChannel(handlers)
    /\ UNCHANGED <<nextTag, processedMessages, processingMessages, everMarked>>
    /\ UNCHANGED <<isConnecting, rmqShuttingDown, rmqListeners>>
    /\ stop' = KillStop(stop)
    /\ health' = KillHealth(health)
    /\ shutdown' = KillShutdown(shutdown)
    /\ UNCHANGED rcRest
    /\ UNCHANGED <<brokerQueues, isInitialized, shutdownPc, activeConsumers, restore,
                   persisted, cancels>>

\* Time passes.
Tick ==
    /\ elapsed < DebounceMs
    /\ elapsed' = IF elapsed + TickMs > DebounceMs THEN DebounceMs ELSE elapsed + TickMs
    /\ NoEmit
    /\ PipeUnchanged
    /\ UNCHANGED <<rmqVars, brokerVars, engVars>>
    /\ UNCHANGED <<isReconnecting, reconnectAttempts, reconnectTimeout, shuttingDown,
                   rcListeners, pendingTimers, attSleep, attConnect>>

\* attemptReconnection() up to its first suspension (the sleep), entered with
\* the timer queue `timers` and the handle `handle`.
AttemptReconnection(handle, timers) ==
    /\ PipeUnchanged
    /\ reconnectTimeout' = handle
    /\ pendingTimers' = timers
    /\ lastEvent' = "none"
    /\ schedCalled' = FALSE
    /\ Emits({})
    /\ IF ShouldAttemptReconnection(IsChannelReady)
       THEN /\ elapsed' = 0
            /\ isReconnecting' = TRUE
            /\ reconnectAttempts' = reconnectAttempts + 1
            /\ emitted' = {"reconnectionStarted"}
            \* cleanupPreviousConnection() -> rabbitMQService.cleanup()
            /\ connection' = "null"
            /\ channel' = "null"
            /\ isConnecting' = FALSE
            /\ rmqListeners' = CleanupListeners(rmqListeners)
            /\ attSleep' = attSleep + 1
            /\ subs' = {}
            /\ starts' = KillStarts(starts)
            /\ reestab' = KillReestab(reestab)
            /\ stop' = KillStop(stop)
            /\ health' = KillHealth(health)
            /\ shutdown' = KillShutdown(shutdown)
            /\ UNCHANGED <<rmqShuttingDown, shuttingDown, rcListeners, attConnect>>
            /\ UNCHANGED <<brokerQueues, isInitialized, shutdownPc, activeConsumers, restore,
                           persisted, cancels>>
       ELSE /\ emitted' = MaxAttemptsEmitted(IsChannelReady)
            /\ UNCHANGED <<rmqVars, brokerVars, engVars>>
            /\ UNCHANGED rcRest

\* The reconnect timer fires.
TimerFires(id) ==
    /\ id \in pendingTimers
    /\ attSleep + attConnect < MaxProcs
    /\ AttemptReconnection(reconnectTimeout, pendingTimers \ {id})

\* forceReconnection(): the pending timer is cleared and attemptReconnection()
\* is called at once.
ForceReconnection ==
    /\ attSleep + attConnect < MaxProcs
    /\ AttemptReconnection(NoTimer, IF reconnectTimeout # NoTimer
                                    THEN ClearTimeout(reconnectTimeout, pendingTimers)
                                    ELSE pendingTimers)

\* The catch and finally blocks of attemptReconnection().
AttemptFailed ==
    /\ lastEvent' = "none"
    /\ Emits({})
    /\ schedCalled' = TRUE
    /\ emitted' = {"reconnectionFailed"} \cup MaxAttemptsEmitted(IsChannelReady)
    /\ ScheduleReconnection(IsChannelReady)
    /\ isReconnecting' = FALSE

\* sleep(1000) is over: attemptReconnection() calls rabbitMQService.connect().
AttemptSleepDone ==
    /\ attSleep > 0
    /\ elapsed >= TickMs
    /\ attSleep' = attSleep - 1
    /\ PipeUnchanged
    /\ IF isConnecting
       THEN \* connect() throws 'Connection already in progress'
            /\ AttemptFailed
            /\ UNCHANGED <<attConnect, isConnecting>>
       ELSE /\ isConnecting' = TRUE
            /\ attConnect' = attConnect + 1
            /\ NoEmit
            /\ UNCHANGED <<isReconnecting, reconnectTimeout, pendingTimers>>
    /\ UNCHANGED <<connection, channel, rmqShuttingDown, rmqListeners>>
    /\ UNCHANGED <<reconnectAttempts, elapsed, shuttingDown, rcListeners>>
    /\ UNCHANGED <<brokerVars, engVars>>

\* connect() fails: amqp.connect, createChannel or prefetch throws.
AttemptConnectFail ==
    /\ attConnect > 0
    /\ attConnect' = attConnect - 1
    /\ isConnecting' = FALSE
    /\ AttemptFailed
    /\ PipeUnchanged
    /\ UNCHANGED <<connection, channel, rmqShuttingDown, rmqListeners>>
    /\ UNCHANGED <<reconnectAttempts, elapsed, shuttingDown, rcListeners, attSleep>>
    /\ UNCHANGED <<brokerVars, engVars>>

\* resetReconnectionState()
ResetReconnectionState ==
    /\ reconnectAttempts' = 0
    /\ isReconnecting' = FALSE
    /\ reconnectTimeout' = NoTimer
    /\ pendingTimers' = IF reconnectTimeout # NoTimer
                        THEN ClearTimeout(reconnectTimeout, pendingTimers)
                        ELSE pendingTimers

\* handleReconnectionSuccess() up to its first await: the table is copied and
\* cleared, then the loop starts.
HandleReconnectionSuccess(E, ready) ==
    ReestabNext([E EXCEPT !.act = [q \in Queues |-> Absent],
                          !.reestab = [IdleReestab EXCEPT
                                          !.todo = SeqOf(ActiveQueues(E.act)),
                                          !.saved = E.act]], ready)

\* connect() succeeds: a new connection and channel, then
\* resetReconnectionState() and emit('reconnectionSuccessful'), which the
\* engine handles with handleReconnectionSuccess().
AttemptConnectOk ==
    /\ attConnect > 0
    /\ reestab.pc = "idle"
    /\ attConnect' = attConnect - 1
    /\ isConnecting' = FALSE
    /\ connection' = "open"
    /\ channel' = "open"
    /\ nextTag' = 1
    /\ brokerMsgs' = Requeue(brokerMsgs)
    /\ lastResult' = NoResult
    /\ UNCHANGED <<processedMessages, processingMessages, everMarked>>
    /\ ResetReconnectionState
    /\ lastEvent' = "none"
    /\ schedCalled' = FALSE
    /\ emitted' = {"reconnectionSuccessful"}
    /\ LET E == IF "reconnectionSuccessful" \in rcListeners
                THEN HandleReconnectionSuccess(Cur, ~rmqShuttingDown)
                ELSE Cur
       IN /\ activeConsumers' = E.act
          /\ handlers' = DetachHandlers(E.act)
          /\ persisted' = E.pers
          /\ starts' = E.starts
          /\ reestab' = E.reestab
          /\ restore' = E.restore
          /\ Emits(E.events)
    /\ UNCHANGED <<rmqShuttingDown, rmqListeners>>
    /\ UNCHANGED <<elapsed, shuttingDown, rcListeners, attSleep>>
    /\ UNCHANGED <<brokerVars, isInitialized, shutdownPc, lifeVars>>

\* initialize(): connect(), isInitialized, then restorePersistedQueues() up to
\* its await of loadQueueConfigs().
Initialize ==
    /\ ~isInitialized
    /\ shutdownPc = "idle"
    /\ connection = "null"
    /\ connection' = "open"
    /\ channel' = "open"
    /\ nextTag' = 1
    /\ lastResult' = NoResult
    /\ UNCHANGED <<brokerMsgs, handlers, processedMessages, processingMessages, everMarked>>
    /\ isInitialized' = TRUE
    /\ restore' = [IdleRestore EXCEPT !.pc = "load", !.fromInit = TRUE]
    /\ NoEmit
    /\ UNCHANGED <<isConnecting, rmqShuttingDown, rmqListeners>>
    /\ UNCHANGED rcVars
    /\ UNCHANGED <<brokerVars, shutdownPc, activeConsumers, starts, reestab, persisted,
                   lifeVars>>

\* An engine step that leaves the client and the controller alone, but for the
\* timer a needsReconnection may set.
LifeStep(E) ==
    /\ Apply(E)
    /\ PipeAfter(E.act)
    /\ UNCHANGED <<rmqVars, rcRest, brokerQueues, isInitialized, shutdownPc>>

EngineStep(E) == LifeStep(E) /\ UNCHANGED lifeVars

\* POST /restore-queues: restorePersistedQueues() up to loadQueueConfigs().
ApiRestoreQueues ==
    /\ ServerListening
    /\ restore.pc = "idle"
    /\ EngineStep([Cur EXCEPT !.restore = [IdleRestore EXCEPT !.pc = "load"]])
    /\ UNCHANGED subs

\* loadQueueConfigs() returned the stored configurations.
RestoreLoaded ==
    /\ restore.pc = "load"
    /\ EngineStep(RestoreNext([Cur EXCEPT !.restore.todo = SeqOf(persisted),
                                          !.restore.total = Cardinality(persisted)],
                              IsChannelReady))
    /\ UNCHANGED subs

\* POST /consume: startConsuming(q) up to its await of checkQueue().
ApiStartConsuming(q) ==
    /\ ServerListening
    /\ starts["api"].pc = "idle"
    /\ LET r == StartCall(activeConsumers, q, IsChannelReady) IN
       EngineStep(CASE r = "already" -> Cur
                    [] r = "notReady" -> [Cur EXCEPT !.needs = TRUE]
                    [] r = "suspended" -> [Cur EXCEPT !.starts["api"] =
                           [pc |-> "check", queue |-> q, dead |-> FALSE]])
    /\ UNCHANGED subs

\* checkQueue() of startConsuming settles; on success createConsumer is called.
StartCheckDone(c) ==
    /\ starts[c].pc = "check"
    /\ LET q == starts[c].queue IN
       \/ /\ starts[c].dead
          /\ EngineStep(StartThrew([Cur EXCEPT !.needs = TRUE], c, FALSE, FALSE,
                                   IsChannelReady))
       \/ /\ ~starts[c].dead /\ q \notin brokerQueues
          /\ \E dne \in BOOLEAN :
                EngineStep(StartThrew(Cur, c, TRUE, dne, IsChannelReady))
       \/ /\ ~starts[c].dead /\ q \in brokerQueues
          /\ IF IsChannelReady
             THEN EngineStep([Cur EXCEPT !.starts[c].pc = "consume"])
             ELSE EngineStep(StartThrew([Cur EXCEPT !.needs = TRUE], c, FALSE, FALSE,
                                        IsChannelReady))
    /\ UNCHANGED subs

\* createConsumer() settles; on success the configuration is stored in the
\* table and saveQueueConfig() is awaited.
StartConsumeDone(c) ==
    /\ starts[c].pc = "consume"
    /\ LET q == starts[c].queue IN
       \/ /\ starts[c].dead
          /\ EngineStep(StartThrew([Cur EXCEPT !.needs = TRUE], c, FALSE, FALSE,
                                   IsChannelReady))
          /\ UNCHANGED subs
       \/ /\ ~starts[c].dead /\ q \notin brokerQueues
          /\ \E dne \in BOOLEAN :
                EngineStep(StartThrew(Cur, c, TRUE, dne, IsChannelReady))
          /\ UNCHANGED subs
       \/ /\ ~starts[c].dead /\ q \in brokerQueues
          /\ FreeTags # {}
          /\ subs' = subs \cup {[queue |-> q, tag |-> NewTag]}
          /\ EngineStep([Cur EXCEPT
                 !.act[q] = [active |-> TRUE, consumerTag |-> NewTag, paused |-> FALSE],
                 !.starts[c].pc = "save"])

\* saveQueueConfig() settles, with the configuration stored (ok) or with an
\* error that startConsuming logs; it emits consumerStarted and returns to its
\* caller.
StartSaveDone(c, ok) ==
    /\ starts[c].pc = "save"
    /\ LET q == starts[c].queue IN
       EngineStep(StartReturned(
           [Cur EXCEPT !.pers = IF ok THEN @ \cup {q} ELSE @,
                       !.events = {Event("consumerStarted", q, c)}], c, IsChannelReady))
    /\ UNCHANGED subs

\* checkQueue() of handleReconnectionSuccess settles; on success
\* startConsuming is called.
ReestabCheckDone ==
    /\ reestab.pc = "check"
    /\ LET q == reestab.cur IN
       \/ /\ reestab.dead
          /\ EngineStep(ReestabNext([Cur EXCEPT !.needs = TRUE], IsChannelReady))
       \/ /\ ~reestab.dead /\ q \notin brokerQueues
          /\ \E dne \in BOOLEAN :
                EngineStep(ReestabNext(IF dne THEN RemoveNotFound(Cur, q) ELSE Cur,
                                       IsChannelReady))
       \/ /\ ~reestab.dead /\ q \in brokerQueues
          /\ LET r == StartCall(activeConsumers, q, IsChannelReady) IN
             EngineStep(CASE r = "already" -> ReestabNext(Cur, IsChannelReady)
                          [] r = "notReady" ->
                               ReestabNext([Cur EXCEPT !.needs = TRUE], IsChannelReady)
                          [] r = "suspended" ->
                               [Cur EXCEPT !.reestab.pc = "start",
                                           !.starts["reestab"] =
                                   [pc |-> "check", queue |-> q, dead |-> FALSE]])
    /\ UNCHANGED subs

\* pauseConsuming(q) / resumeConsuming(q)
PauseConsuming(q) ==
    /\ activeConsumers[q].active /\ ~activeConsumers[q].paused
    /\ EngineStep([Cur EXCEPT !.act[q].paused = TRUE])
    /\ UNCHANGED subs

ResumeConsuming(q) ==
    /\ activeConsumers[q].active /\ activeConsumers[q].paused
    /\ EngineStep([Cur EXCEPT !.act[q].paused = FALSE])
    /\ UNCHANGED subs

\* pauseConsuming(q) on the table act: the table it leaves and the error it
\* throws ("none": it returns).
PauseOutcomeUnchecked(act, q) ==
    IF ~act[q].active THEN [act |-> act, error |-> "not being consumed"]
    ELSE [act |-> [act EXCEPT ![q].paused = TRUE], error |-> "none"]
PauseOutcome(act, q) ==
    IF ~act[q].active THEN [act |-> act, error |-> "not being consumed"]
    ELSE IF act[q].paused THEN [act |-> act, error |-> "already paused"]
    ELSE [act |-> [act EXCEPT ![q].paused = TRUE], error |-> "none"]

\* resumeConsuming(q)
ResumeOutcomeNoFlip(act, q) ==
    IF ~act[q].active THEN [act |-> act, error |-> "not being consumed"]
    ELSE IF ~act[q].paused THEN [act |-> act, error |-> "not paused"]
    ELSE [act |-> act, error |-> "none"]
ResumeOutcome(act, q) ==
    IF ~act[q].active THEN [act |-> act, error |-> "not being consumed"]
    ELSE IF ~act[q].paused THEN [act |-> act, error |-> "not paused"]
    ELSE [act |-> [act EXCEPT ![q].paused = FALSE], error |-> "none"]

\* The status QueueController answers with: 404 for 'not being consumed', 400
\* for the other error of the call, 200 when it returned.
HttpStatus(error) ==
    IF error = "none" THEN "200"
    ELSE IF error = "not being consumed" THEN "404"
    ELSE "400"

\* POST /pause and POST /resume
ApiPauseConsuming(q) ==
    /\ ServerListening
    /\ LET o == PauseOutcome(activeConsumers, q)
       IN LifeStep([Cur EXCEPT
              !.act = o.act,
              !.events = {Event("POST /pause", q, HttpStatus(o.error))}
                         \cup (IF o.error = "none"
                               THEN {Event("consumerPaused", q, "-")} ELSE {})])
    /\ UNCHANGED <<subs, lifeVars>>

ApiResumeConsuming(q) ==
    /\ ServerListening
    /\ LET o == ResumeOutcome(activeConsumers, q)
       IN LifeStep([Cur EXCEPT
              !.act = o.act,
              !.events = {Event("POST /resume", q, HttpStatus(o.error))}
                         \cup (IF o.error = "none"
                               THEN {Event("consumerResumed", q, "-")} ELSE {})])
    /\ UNCHANGED <<subs, lifeVars>>

\* GET /queue-info/:q: getQueueInfo(q) calls checkQueue(q), which changes nothing
\* but emits needsReconnection when the channel is not ready.
GetQueueInfo(q) ==
    /\ ServerListening
    /\ EngineStep([Cur EXCEPT !.needs = ~IsChannelReady])
    /\ UNCHANGED subs

\* stopConsuming(q, reason) from the removal of the local state on.  Only
\* reason 'manual' removes the stored configuration (no caller passes it; the
\* await of that removal is folded into the step).
StopFinish(E, q, reason) ==
    [E EXCEPT !.act[q] = Absent,
              !.pers = IF reason = "manual" THEN @ \ {q} ELSE @,
              !.events = @ \cup (IF reason = "manual"
                                 THEN {Event("removeQueueConfig", q, reason)} ELSE {})
                           \cup {Event("consumerStopped", q, reason)}]

\* stopConsuming(q, reason) once its cancelConsumer has settled: a cancel that
\* threw leaves the try block before the local state is removed.
AfterCancelAlways(E, q, reason, threw) == StopFinish(E, q, reason)

AfterCancel(E, q, reason, threw) == IF threw THEN E ELSE StopFinish(E, q, reason)

\* POST /stop: QueueController.stopConsuming calls
\* stopConsuming(q, 'api_request'), which runs up to its await of cancelConsumer.
ApiStopConsuming(q) ==
    /\ ServerListening
    /\ stop.pc = "idle"
    /\ IF ~activeConsumers[q].active
       THEN \* 'is not being consumed'
            /\ LifeStep([Cur EXCEPT !.events =
                            {Event("POST /stop", q, HttpStatus("not being consumed"))}])
            /\ UNCHANGED stop
       ELSE IF activeConsumers[q].consumerTag # NoTag /\ IsChannelReady
       THEN /\ LifeStep([Cur EXCEPT !.events = {Event("cancelConsumer", q, "api_request")}])
            /\ stop' = [pc |-> "cancel", queue |-> q,
                        tag |-> activeConsumers[q].consumerTag, dead |-> FALSE]
       ELSE LifeStep(StopFinish(Cur, q, "api_request")) /\ UNCHANGED stop
    /\ UNCHANGED <<subs, health, cancels, shutdown>>

\* cancelConsumer() of that stopConsuming settles.
StopCancelDone ==
    /\ stop.pc = "cancel"
    /\ stop' = IdleStop
    /\ IF stop.dead
       THEN /\ LifeStep([AfterCancel(Cur, stop.queue, "api_request", TRUE)
                            EXCEPT !.needs = TRUE,
                                   !.events = {Event("stopConsuming", stop.queue, "threw")}])
            /\ UNCHANGED subs
       ELSE /\ subs' = subs \ {[queue |-> stop.queue, tag |-> stop.tag]}
            /\ LifeStep(AfterCancel(Cur, stop.queue, "api_request", FALSE))
    /\ UNCHANGED <<health, cancels, shutdown>>

\* The broker cancels the consumer of q (the queue was deleted or failed
\* over): the message handler is called with null, drops the local state and
\* awaits removeQueueConfig.
ConsumerCancelled(q) ==
    /\ IsChannelReady
    /\ q \notin cancels
    /\ \E sb \in subs :
          /\ sb.queue = q
          /\ subs' = subs \ {sb}
    /\ cancels' = cancels \cup {q}
    /\ LifeStep([Cur EXCEPT !.act[q] = Absent])
    /\ UNCHANGED <<stop, health, shutdown>>

\* That removeQueueConfig settles, and the handler emits consumerCancelled.
CancelRemoveDone(q, ok) ==
    /\ q \in cancels
    /\ cancels' = cancels \ {q}
    /\ LifeStep([Cur EXCEPT
           !.pers = IF ok THEN @ \ {q} ELSE @,
           !.events = (IF ok THEN {Event("removeQueueConfig", q, "consumer_cancelled")}
                       ELSE {}) \cup {Event("consumerCancelled", q, "consumer_cancelled")}])
    /\ UNCHANGED <<subs, stop, health, shutdown>>

\* The sweep of the health monitor from its next queue up to the next await.
\* checkQueue throws 'Channel not ready' at once while the channel is not
\* ready, which the sweep counts and goes on.
HealthNext(H, ready) ==
    IF H.todo = <<>> \/ ~ready THEN IdleHealth
    ELSE [IdleHealth EXCEPT !.pc = "check", !.cur = Head(H.todo), !.todo = Tail(H.todo)]

\* The callback of the health interval ran.
HealthInterval == Event("healthCheckInterval", "-", "fired")

\* The callback returns at once while no queue is active.
NothingToCheck(act) == ActiveQueues(act) = {}

\* The sweep is skipped, and needsReconnection emitted, while the channel is
\* not ready.
SkipsSweepNever(ready) == FALSE
SkipsSweep(ready) == ~ready

\* The interval of startQueueHealthMonitoring fires (shutdown clears it).
HealthTick ==
    /\ isInitialized
    /\ shutdownPc = "idle"
    /\ health.pc = "idle"
    /\ IF NothingToCheck(activeConsumers)
       THEN LifeStep([Cur EXCEPT !.events = {HealthInterval}]) /\ UNCHANGED health
       ELSE IF SkipsSweep(IsChannelReady)
       THEN /\ LifeStep([Cur EXCEPT !.needs = TRUE, !.events = {HealthInterval}])
            /\ UNCHANGED health
       ELSE /\ LifeStep([Cur EXCEPT !.events = {HealthInterval}])
            /\ health' = HealthNext([IdleHealth EXCEPT
                                         !.todo = SeqOf(ActiveQueues(activeConsumers))], TRUE)
    /\ UNCHANGED <<subs, stop, cancels, shutdown>>

\* handleExternallyDeletedQueue(q) from the call of notifyQueueFinish on: with
\* no configuration it emits queueDeletedExternally at once and the sweep
\* goes on.
HealthAfterRemove(E, H, ready) ==
    IF H.hadConfig
    THEN [E |-> [E EXCEPT !.events = @ \cup
                    {Event("notifyQueueFinish", H.cur, "queue_deleted_externally")}],
          H |-> [H EXCEPT !.pc = "notify", !.snap = {}]]
    ELSE [E |-> [E EXCEPT !.events = @ \cup
                    {Event("queueDeletedExternally", H.cur, "null")},
                          !.needs = H.todo # <<>> /\ ~ready],
          H |-> HealthNext(H, ready)]

\* checkQueue() of the sweep settles; on a not-found error
\* handleExternallyDeletedQueue(q) runs up to its await of loadData().
HealthCheckDone ==
    /\ health.pc = "check"
    /\ LET q == health.cur IN
       IF health.dead
       THEN \* 'channel closed': needsReconnection, and the sweep stops
            LifeStep([Cur EXCEPT !.needs = TRUE]) /\ health' = IdleHealth
       ELSE IF q \notin brokerQueues
       THEN /\ LifeStep([Cur EXCEPT !.act[q] = Absent])
            /\ health' = [health EXCEPT !.pc = "load",
                                        !.hadConfig = activeConsumers[q].active]
       ELSE /\ LifeStep([Cur EXCEPT !.needs = health.todo # <<>> /\ ~IsChannelReady])
            /\ health' = HealthNext(health, IsChannelReady)
    /\ UNCHANGED <<subs, stop, cancels, shutdown>>

\* loadData() of removeQueueConfig settles: with the document, of which q is
\* deleted and which saveData() then writes, or with an error, which the
\* handler logs.
HealthLoadDone(ok) ==
    /\ health.pc = "load"
    /\ IF ok /\ health.cur \in persisted
       THEN /\ LifeStep(Cur)
            /\ health' = [health EXCEPT !.pc = "write", !.snap = persisted \ {health.cur}]
       ELSE LET R == HealthAfterRemove(Cur, health, IsChannelReady)
            IN LifeStep(R.E) /\ health' = R.H
    /\ UNCHANGED <<subs, stop, cancels, shutdown>>

\* saveData() of removeQueueConfig settles: the document is the one written.
HealthWriteDone(ok) ==
    /\ health.pc = "write"
    /\ LET E == IF ok
                THEN [Cur EXCEPT !.pers = health.snap,
                                 !.events = {Event("removeQueueConfig", health.cur,
                                                   "queue_deleted_externally")}]
                ELSE Cur
           R == HealthAfterRemove(E, health, IsChannelReady)
       IN LifeStep(R.E) /\ health' = R.H
    /\ UNCHANGED <<subs, stop, cancels, shutdown>>

\* notifyQueueFinish() settles, with or without an error: the handler emits
\* queueDeletedExternally and the sweep goes on.
HealthNotifyDone ==
    /\ health.pc = "notify"
    /\ LifeStep([Cur EXCEPT
           !.events = {Event("queueDeletedExternally", health.cur, "config")},
           !.needs = health.todo # <<>> /\ ~IsChannelReady])
    /\ health' = HealthNext(health, IsChannelReady)
    /\ UNCHANGED <<subs, stop, cancels, shutdown>>

\* POST /clear-configs: clearAll()
ClearConfigs ==
    /\ ServerListening
    /\ persisted # {}
    /\ LifeStep([Cur EXCEPT
           !.pers = {},
           !.events = {Event("removeQueueConfig", q, "clear_configs") : q \in persisted}])
    /\ UNCHANGED <<subs, lifeVars>>

\* DELETE /persisted-queue/:q: loadQueueConfig(q), then removeQueueConfig(q)
RemovePersistedQueue(q) ==
    /\ ServerListening
    /\ q \in persisted
    /\ LifeStep([Cur EXCEPT
           !.pers = @ \ {q},
           !.events = {Event("removeQueueConfig", q, "persisted_queue_delete")}])
    /\ UNCHANGED <<subs, lifeVars>>

\* if (this.isShuttingDown) return;
ShutdownAlreadyInProgressNever(pc) == FALSE
ShutdownAlreadyInProgress(pc) == pc # "idle"

\* The end of shutdown() after deduplicationService.shutdown() returned.
ShutdownTail(sd) ==
    [sd EXCEPT !.log = @ \o <<Step("webhookService.shutdown", "-"),
                              Step("rabbitMQService.disconnect", "-")>>]

\* shutdown() from the next entry of its stop loop up to the next suspension:
\* the cancelConsumer of a stopConsuming(q, 'shutdown') (its errors are
\* caught per queue), the wait of deduplicationService.shutdown() for the
\* messages in flight, or rabbitMQService.disconnect().  clear: the step
\* ran deduplicationService.clear().  The notifyQueueFinish after a stop
\* changes nothing and is folded in.
RECURSIVE ShutdownRun(_, _, _, _)
ShutdownRun(E, sd, ready, inflight) ==
    IF sd.todo # <<>>
    THEN LET q == Head(sd.todo)
             sd1 == [sd EXCEPT !.todo = Tail(@), !.cur = "-", !.tag = NoTag,
                               !.dead = FALSE,
                               !.log = Append(@, Step("stopConsuming", q))]
         IN IF ~E.act[q].active
            THEN ShutdownRun(E, sd1, ready, inflight)
            ELSE IF E.act[q].consumerTag # NoTag /\ ready
            THEN [E |-> [E EXCEPT !.events = @ \cup {Event("cancelConsumer", q, "shutdown")}],
                  sd |-> [sd1 EXCEPT !.cur = q, !.tag = E.act[q].consumerTag],
                  pc |-> "stop", clear |-> FALSE]
            ELSE ShutdownRun(StopFinish(E, q, "shutdown"), sd1, ready, inflight)
    ELSE LET sd2 == [sd EXCEPT !.cur = "-", !.tag = NoTag, !.dead = FALSE,
                               !.log = @ \o <<Step("messageProcessor.shutdown", "-"),
                                              Step("deduplicationService.shutdown", "-")>>]
         IN IF inflight
            THEN [E |-> E, sd |-> sd2, pc |-> "dedup", clear |-> FALSE]
            ELSE [E |-> E, sd |-> ShutdownTail(sd2), pc |-> "disconnect", clear |-> TRUE]

\* What a step of shutdown() leaves of the engine and of the pipeline.
ShutdownApply(R) ==
    /\ activeConsumers' = R.E.act
    /\ persisted' = R.E.pers
    /\ Emits(R.E.events)
    /\ shutdown' = R.sd
    /\ shutdownPc' = R.pc
    /\ handlers' = DetachHandlers(R.E.act)
    /\ IF R.clear
       THEN processedMessages' = <<>> /\ processingMessages' = {}
       ELSE UNCHANGED <<processedMessages, processingMessages>>
    /\ lastResult' = NoResult
    /\ UNCHANGED <<brokerMsgs, nextTag, everMarked>>
    /\ UNCHANGED <<rmqVars, brokerQueues, isInitialized, starts, reestab, restore,
                   stop, health, cancels>>

\* shutdown() up to its first suspension: stopQueueHealthMonitoring(), then
\* reconnectionService.shutdown() (stopReconnectionAttempts and
\* removeAllListeners), then the stop loop over the active queues.
ShutdownBegin ==
    /\ shuttingDown' = TRUE
    /\ reconnectTimeout' = NoTimer
    /\ pendingTimers' = IF reconnectTimeout # NoTimer
                        THEN ClearTimeout(reconnectTimeout, pendingTimers)
                        ELSE pendingTimers
    /\ isReconnecting' = FALSE
    /\ rcListeners' = {}
    /\ RmqSilent
    /\ ShutdownApply(ShutdownRun(Cur,
           [shutdown EXCEPT
               !.calls = @ + 1,
               !.queues = ActiveQueues(activeConsumers),
               !.todo = SeqOf(ActiveQueues(activeConsumers)),
               !.log = @ \o <<Step("stopQueueHealthMonitoring", "-"),
                              Step("reconnectionService.shutdown", "-")>>],
           IsChannelReady, processingMessages # {}))
    /\ UNCHANGED subs
    /\ UNCHANGED <<reconnectAttempts, elapsed, attSleep, attConnect>>

\* shutdown() is called: a call while one is in progress returns at once.
Shutdown ==
    /\ shutdown.calls < MaxShutdownCalls
    /\ IF ShutdownAlreadyInProgress(shutdownPc)
       THEN /\ shutdown' = [shutdown EXCEPT !.calls = @ + 1]
            /\ NoEmit
            /\ PipeUnchanged
            /\ UNCHANGED <<rmqVars, rcVars, brokerVars>>
            /\ UNCHANGED <<isInitialized, shutdownPc, activeConsumers, starts, reestab,
                           restore, persisted, stop, health, cancels>>
       ELSE ShutdownBegin

\* cancelConsumer() of the stopConsuming(q, 'shutdown') settles, and the stop
\* loop goes on.
ShutdownStopDone ==
    /\ shutdownPc = "stop"
    /\ LET E == AfterCancel(Cur, shutdown.cur, "shutdown", shutdown.dead)
           sd == [shutdown EXCEPT !.failed = IF shutdown.dead
                                             THEN @ \cup {shutdown.cur} ELSE @]
       IN ShutdownApply(ShutdownRun(E, sd, IsChannelReady, processingMessages # {}))
    /\ subs' = IF shutdown.dead THEN subs
               ELSE subs \ {[queue |-> shutdown.cur, tag |-> shutdown.tag]}
    /\ IF shutdown.dead
       THEN RmqEmit("needsReconnection", IsChannelReady)
       ELSE RmqSilent /\ UNCHANGED <<reconnectTimeout, pendingTimers>>
    /\ UNCHANGED rcRest

\* deduplicationService.shutdown() stops waiting, no message being in flight
\* or after 30 s, and clears the sets; shutdown() goes on to disconnect().
ShutdownDedupDone ==
    /\ shutdownPc = "dedup"
    /\ ShutdownApply([E |-> Cur, sd |-> ShutdownTail(shutdown), pc |-> "disconnect",
                      clear |-> TRUE])
    /\ RmqSilent
    /\ UNCHANGED subs
    /\ UNCHANGED rcVars

\* rabbitMQService.disconnect(): closing the channel and the connection emits
\* their close events, which the controller ignores while shutting down.
ShutdownDisconnect ==
    /\ shutdownPc = "disconnect"
    /\ shutdownPc' = "done"
    /\ brokerMsgs' = Requeue(brokerMsgs)
    /\ lastResult' = NoResult
    /\ handlers' = OutliveChannel(handlers)
    /\ UNCHANGED <<nextTag, processedMessages, processingMessages, everMarked>>
    /\ rmqShuttingDown' = TRUE
    /\ channel' = "null"
    /\ connection' = "null"
    /\ subs' = {}
    /\ starts' = KillStarts(starts)
    /\ reestab' = KillReestab(reestab)
    /\ IF connection = "open"
       THEN RmqEmit("connectionClosed", FALSE)
       ELSE RmqSilent /\ UNCHANGED <<reconnectTimeout, pendingTimers>>
    /\ UNCHANGED <<isConnecting, rmqListeners>>
    /\ stop' = KillStop(stop)
    /\ health' = KillHealth(health)
    /\ Emits({})
    /\ UNCHANGED rcRest
    /\ UNCHANGED <<brokerQueues, isInitialized, activeConsumers, restore, persisted,
                   cancels, shutdown>>

\* ------------------------------------------------ the message pipeline steps

\* The broker delivers m to the consumer of its queue (prefetch is 1: no other
\* delivery of the channel is unacknowledged); the message handler runs up to
\* its await (the pacing sleep), or nacks at once for an unknown consumer.
Deliver(m) ==
    /\ brokerMsgs[m].st = "ready"
    /\ IsChannelReady
    /\ \E sb \in subs : sb.queue = MsgQueue
    /\ \A k \in Messages : brokerMsgs[k].st # "unacked"
    /\ nextTag <= MaxDeliveryTag
    /\ \E h \in HandlerIds : handlers[h].pc = "idle"
    /\ nextTag' = nextTag + 1
    /\ LET bm == [brokerMsgs EXCEPT ![m] = [st |-> "unacked", tag |-> nextTag,
                                            redelivered |-> @.delivered,
                                            delivered |-> TRUE]]
       IN IF activeConsumers[MsgQueue].active
          THEN /\ brokerMsgs' = bm
               /\ handlers' = [handlers EXCEPT ![FreeHandler] =
                      [IdleHandler EXCEPT !.pc = "start", !.msg = m, !.tag = nextTag,
                                          !.own = TRUE,
                                          !.redelivered = bm[m].redelivered]]
          ELSE /\ brokerMsgs' = NackMessage(bm, nextTag, TRUE)
               /\ UNCHANGED handlers
    /\ lastResult' = NoResult
    /\ NoEmit
    /\ UNCHANGED <<processedMessages, processingMessages, everMarked>>
    /\ UNCHANGED <<reconnectTimeout, pendingTimers>>
    /\ UNCHANGED <<rmqVars, rcRest, brokerVars, engVars>>

\* Whether the catch block of the message handler is entered after
\* processMessage returned: nothing that follows in the try block throws (the
\* statistics are assignments and 'messageProcessed' has no listener), and
\* processMessage catches what its own steps throw.
HandlerCatches == FALSE

\* The catch block of the message handler nacks unless processMessage
\* returned {skip, ...}.
FallbackNackUnlessSkip(caught, result) == result.action # "skip"
FallbackNack(caught, result) == caught /\ result.action # "skip"

\* processMessage returned res to the message handler, which runs to its end
\* and frees its slot.
Return(h, res, bm, processed, marked) ==
    /\ handlers' = [handlers EXCEPT ![h] = IdleHandler]
    /\ lastResult' = [res EXCEPT !.fallback = FallbackNack(HandlerCatches, res)]
    /\ brokerMsgs' = IF FallbackNack(HandlerCatches, res)
                     THEN NackMessage(bm, handlers[h].tag, IsChannelReady)
                     ELSE bm
    /\ processedMessages' = processed
    /\ everMarked' = everMarked \cup marked
    /\ processingMessages' = RemoveMessageFromProcessing(processingMessages, res.fp)
    /\ NoEmit
    /\ UNCHANGED nextTag
    /\ UNCHANGED <<reconnectTimeout, pendingTimers>>
    /\ UNCHANGED <<rmqVars, rcRest, brokerVars, engVars>>

\* The pacing sleep is over: processMessage(msg, queueConfig) up to its await of
\* sendToWebhook, or to its return.
ProcessStart(h, hour, businessHours) ==
    /\ handlers[h].pc = "start"
    /\ LET f == GenerateMessageId(handlers[h].tag, handlers[h].msg)
           paused == ConfigPaused(handlers[h])
           hh == [handlers[h] EXCEPT
                     !.own = FALSE,
                     !.paused = paused,
                     !.wasMarked = f \in everMarked,
                     !.inProcessed = f \in Range(processedMessages),
                     !.tablePaused = /\ activeConsumers[MsgQueue].active
                                     /\ activeConsumers[MsgQueue].paused,
                     !.outside = OutsideWindow(hour, businessHours)]
           tag == hh.tag
       IN IF IsMessageProcessed(processedMessages, f)
          THEN Return(h, Result(hh, "skip", "duplicate", {"duplicates", "skipped"}, {},
                                NoResponse),
                      brokerMsgs, processedMessages, {})
          ELSE IF paused
          THEN Return(h, Result(hh, "nack", "paused", {"paused", "skipped"}, {"nack"},
                                NoResponse),
                      NackMessage(brokerMsgs, tag, IsChannelReady), processedMessages, {})
          ELSE IF businessHours = NoBusinessHours
          THEN \* reading businessHours.start throws
               Return(h, Result(hh, "nack", "unexpected_error", {"failed"}, {"nack"},
                                NoResponse),
                      NackMessage(brokerMsgs, tag, IsChannelReady), processedMessages, {})
          ELSE IF ~IsWithinBusinessHours(hour, businessHours)
          THEN Return(h, Result(hh, "nack", "outside_business_hours",
                                {"outsideBusinessHours", "skipped"}, {"nack"}, NoResponse),
                      NackMessage(brokerMsgs, tag, IsChannelReady), processedMessages, {})
          ELSE IF ~Content[hh.msg].json
          THEN Return(h, Result(hh, "ack", "parse_error", {"failed"}, {"ack"}, NoResponse),
                      AckMessage(brokerMsgs, tag, IsChannelReady),
                      MarkMessageProcessed(processedMessages, f), {f})
          ELSE /\ handlers' = [handlers EXCEPT ![h] =
                                  [hh EXCEPT !.pc = "webhook", !.attempt = 1]]
               /\ processingMessages' = processingMessages \cup {f}
               /\ lastResult' = NoResult
               /\ NoEmit
               /\ UNCHANGED <<brokerMsgs, nextTag, processedMessages, everMarked>>
               /\ UNCHANGED <<reconnectTimeout, pendingTimers>>
               /\ UNCHANGED <<rmqVars, rcRest, brokerVars, engVars>>

\* One POST of sendWebhookWithRetry settles with r; processMessage goes on when
\* sendToWebhook returns.
WebhookResponse(h, r) ==
    /\ handlers[h].pc = "webhook"
    /\ LET hh == handlers[h]
           f == GenerateMessageId(hh.tag, hh.msg)
           d == Disposition(AfterPost(hh.attempt, r), r)
       IN IF AfterPost(hh.attempt, r) = "resolved"
          THEN Return(h, Result(hh, d.action, d.reason, d.inc, {"ack"}, r),
                      AckMessage(brokerMsgs, hh.tag, IsChannelReady),
                      MarkMessageProcessed(processedMessages, f), {f})
          ELSE IF AfterPost(hh.attempt, r) = "again"
          THEN /\ handlers' = [handlers EXCEPT ![h].attempt = @ + 1]
               /\ lastResult' = NoResult
               /\ NoEmit
               /\ UNCHANGED <<brokerMsgs, nextTag, processedMessages, processingMessages,
                              everMarked>>
               /\ UNCHANGED <<reconnectTimeout, pendingTimers>>
               /\ UNCHANGED <<rmqVars, rcRest, brokerVars, engVars>>
          ELSE IF ShouldRetryMessage(r)
          THEN Return(h, Result(hh, d.action, d.reason, d.inc, {"nack"}, r),
                      NackMessage(brokerMsgs, hh.tag, IsChannelReady),
                      processedMessages, {})
          ELSE Return(h, Result(hh, d.action, d.reason, d.inc, {"ack"}, r),
                      AckMessage(brokerMsgs, hh.tag, IsChannelReady),
                      MarkMessageProcessed(processedMessages, f), {f})

\* The cleanup interval of DeduplicationService fires
\* (deduplicationService.shutdown() clears it).
CleanupTimerFires ==
    /\ shutdownPc \in {"idle", "stop"}
    /\ processedMessages' = CleanupOldMessages(processedMessages)
    /\ lastResult' = NoResult
    /\ NoEmit
    /\ UNCHANGED <<brokerMsgs, nextTag, handlers, processingMessages, everMarked>>
    /\ UNCHANGED <<reconnectTimeout, pendingTimers>>
    /\ UNCHANGED <<rmqVars, rcRest, brokerVars, engVars>>

\* ackMessage(msg) or nackMessage(msg, false, true) of a delivery with the tag
\* `tag`, called at any time after initialize().
AckNackCall(op, tag, fault) ==
    /\ isInitialized
    /\ fault \in IF KnownTag(brokerMsgs, tag) THEN {"none", "other"} ELSE {"none", "406"}
    /\ LET out == SafeAck(op, tag, IsChannelReady, fault)
           done == out.issued /\ out.fault = "none"
       IN /\ chCall' = out
          /\ brokerMsgs' = IF op = "ack" THEN AckMessage(brokerMsgs, tag, done)
                           ELSE NackMessage(brokerMsgs, tag, done)
          /\ IF out.emits # {}
             THEN RmqEmit("needsReconnection", IsChannelReady)
             ELSE RmqSilent /\ UNCHANGED <<reconnectTimeout, pendingTimers>>
    /\ engineEvents' = {}
    /\ lastResult' = NoResult
    /\ UNCHANGED <<nextTag, handlers, processedMessages, processingMessages, everMarked>>
    /\ UNCHANGED <<rmqVars, rcRest, brokerVars, engVars, psVars, whVars, paceVars, auxVars>>

\* The queue is deleted at the broker.
BrokerDeletesQueue(q) ==
    /\ q \in brokerQueues
    /\ brokerQueues' = brokerQueues \ {q}
    /\ NoEmit
    /\ PipeUnchanged
    /\ UNCHANGED <<rmqVars, rcVars, subs, engVars>>

\* ------------------------------------------- PersistenceService, file by file

\* Queue names: any non-blank string is one (isValidQueueName), a name of a
\* member of Object.prototype included.
StoreNames == {"q1", "constructor"}
ObjectPrototype == {"constructor"}
\* The configurations startConsuming saves.
Configs == {"cfgA", "cfgB"}
\* new Date().toISOString()
Times == {1, 2}
Paths == {"main", "backup"}

\* A value read from a JavaScript object by obj[name]: an entry of the store,
\* undefined, or a member inherited from Object.prototype (truthy).
Entry(cfg, t) == [cfg |-> cfg, savedAt |-> t]
Undefined == [cfg |-> "undefined", savedAt |-> 0]
Inherited == [cfg |-> "[Function]", savedAt |-> 0]

\* The value of the top-level queues field of a document: a map of own
\* properties, or a JSON value of another type ("array": [], "string",
\* "null", "missing").
EmptyMap == [q \in StoreNames |-> Undefined]
QueuesOf(type, m) == [t |-> type, m |-> m]
Document(t, queues) == [lastUpdated |-> t, queues |-> queues]
NoFile == Document(0, QueuesOf("nofile", EmptyMap))
InitialData(t) == Document(t, QueuesOf("map", EmptyMap))

\* typeof v === 'object' of a truthy v.
TypeofObject(queues) == queues.t \in {"map", "array"}
\* !data.queues
Falsy(queues) == queues.t \in {"missing", "null"}

\* obj[name]: the own property, else the inherited member.
Lookup(queues, name) ==
    IF queues.t = "map" /\ queues.m[name] # Undefined THEN queues.m[name]
    ELSE IF name \in ObjectPrototype THEN Inherited
    ELSE Undefined

\* Object.keys(obj)
Keys(queues) == IF queues.t = "map"
                THEN {q \in StoreNames : queues.m[q] # Undefined} ELSE {}

\* obj[name] = v and JSON.stringify: a property set on an array is not written.
Assign(queues, name, v) ==
    IF queues.t = "map" THEN [queues EXCEPT !.m[name] = v] ELSE queues
\* delete obj[name]
Delete(queues, name) ==
    IF queues.t = "map" THEN [queues EXCEPT !.m[name] = Undefined] ELSE queues

\* loadData(): an absent file reads as the empty structure.
LoadData(main, t) == IF main = NoFile THEN InitialData(t) ELSE main

\* The outcome of a call: the file it leaves, what it returned, whether it threw.
Outcome(main, ret, keys, threw) ==
    [main |-> main, ret |-> ret, keys |-> keys, threw |-> threw]

\* saveQueueConfig(queueName, config); ok: fs.writeFile succeeds.
SaveQueueConfig(ready, main, q, cfg, t, ok) ==
    IF ~ready \/ ~ok THEN Outcome(main, "-", {}, TRUE)
    ELSE Outcome(Document(t, Assign(LoadData(main, t).queues, q, Entry(cfg, t))),
                 "-", {}, FALSE)

\* removeQueueConfig(queueName)
RemoveQueueConfig(ready, main, q, t, ok) ==
    IF ~ready THEN Outcome(main, "-", {}, TRUE)
    ELSE IF Lookup(LoadData(main, t).queues, q) # Undefined
    THEN IF ok THEN Outcome(Document(t, Delete(LoadData(main, t).queues, q)),
                            "true", {}, FALSE)
         ELSE Outcome(main, "-", {}, TRUE)
    ELSE Outcome(main, "false", {}, FALSE)

\* loadQueueConfigs(): data.queues || {}
LoadQueueConfigs(main) ==
    IF Falsy(LoadData(main, 0).queues) THEN QueuesOf("map", EmptyMap)
    ELSE LoadData(main, 0).queues

\* loadQueueConfig(queueName): configs[queueName] || null
LoadQueueConfig(main, q) == Lookup(LoadQueueConfigs(main), q)

\* restoreFromBackup(backupPath) of a backup file that holds `backup`.
RestoreFromBackup(main, backup, ok) ==
    IF backup = NoFile THEN Outcome(main, "-", {}, TRUE)
    ELSE IF Falsy(backup.queues) \/ ~TypeofObject(backup.queues)
    THEN Outcome(main, "-", {}, TRUE)
    ELSE IF ~ok THEN Outcome(main, "-", {}, TRUE)
    ELSE Outcome(backup, "-", Keys(backup.queues), FALSE)

\* clearAll()
ClearAll(main, t, ok) == IF ok THEN Outcome(InitialData(t), "-", {}, FALSE)
                         ELSE Outcome(main, "-", {}, TRUE)

PsCall(op, q, o) == [op |-> op, q |-> q, ret |-> o.ret, keys |-> o.keys, threw |-> o.threw]
NoPsCall == PsCall("none", "-", Outcome(NoFile, "-", {}, FALSE))

\* A call of PersistenceService that leaves outcome o.
PsStep(op, q, o) ==
    /\ files' = [files EXCEPT !["main"] = o.main]
    /\ psCall' = PsCall(op, q, o)
    /\ UNCHANGED isReady

\* init() completes: the file is created when absent.
PsInit(t) ==
    /\ ~isReady
    /\ isReady' = TRUE
    /\ files' = [files EXCEPT !["main"] = LoadData(@, t)]
    /\ psCall' = PsCall("init", "-", Outcome(NoFile, "-", {}, FALSE))

PsSave(q, cfg, t, ok) ==
    PsStep("save", q, SaveQueueConfig(isReady, files["main"], q, cfg, t, ok))

PsRemove(q, t, ok) ==
    PsStep("remove", q, RemoveQueueConfig(isReady, files["main"], q, t, ok))

PsClear(t, ok) == PsStep("clear", "-", ClearAll(files["main"], t, ok))

PsRestore(ok) ==
    PsStep("restore", "-", RestoreFromBackup(files["main"], files["backup"], ok))

\* createBackup(backupPath)
PsBackup(t, ok) ==
    /\ files' = IF ok THEN [files EXCEPT !["backup"] = LoadData(files["main"], t)]
                ELSE files
    /\ psCall' = PsCall("backup", "-", Outcome(NoFile, "-", {}, ~ok))
    /\ UNCHANGED isReady

\* ------------------------------------------------- WebhookService, on its own

\* was: stats.retries when the call began; only5xx: every POST of the call
\* was answered with a status >= 500; last: the answer to its last POST;
\* sends: the calls made so far.
IdleSend == [pc |-> "idle", attempt |-> 0, was |-> 0, only5xx |-> FALSE,
             last |-> NoResponse, sends |-> 0]

\* sendWebhookWithRetry(url, data) up to its first POST.
SendWebhookWithRetry ==
    /\ whCall.pc # "post"
    /\ whCall.sends < MaxSends
    /\ whCall' = [pc |-> "post", attempt |-> 1, was |-> whStats.retries,
                  only5xx |-> TRUE, last |-> NoResponse, sends |-> whCall.sends + 1]
    /\ UNCHANGED whStats

\* The POST in flight settles with r.
PostSettles(r) ==
    /\ whCall.pc = "post"
    /\ whStats' = UpdateStats(whStats, r)
    /\ whCall' = [whCall EXCEPT
           !.pc = IF AfterPost(whCall.attempt, r) = "again" THEN "post"
                  ELSE AfterPost(whCall.attempt, r),
           !.attempt = IF AfterPost(whCall.attempt, r) = "again" THEN @ + 1 ELSE @,
           !.only5xx = @ /\ r # NoResponse /\ r >= 500,
           !.last = r]

\* ------------------------------------------------------ the pacing of a queue

\* The interval ranges of a queue, in seconds: sanitizeIntervals makes
\* minInterval >= 1000 ms and maxInterval >= minInterval + 1000 ms.
Ranges == {[min |-> 1, max |-> 2], [min |-> 3, max |-> 4]}
NoRange == [min |-> 0, max |-> 0]
NoInterval == 0
\* What processMessage returns to the message handler.
Dispositions ==
    {[action |-> "ack", reason |-> "success"],
     [action |-> "ack", reason |-> "parse_error"],
     [action |-> "ack", reason |-> "webhook_permanent_error"],
     [action |-> "nack", reason |-> "webhook_retry"],
     [action |-> "nack", reason |-> "paused"],
     [action |-> "nack", reason |-> "outside_business_hours"],
     [action |-> "nack", reason |-> "unexpected_error"],
     [action |-> "skip", reason |-> "duplicate"]}
NoDisposition == [action |-> "none", reason |-> "none"]

\* getRandomInterval(min, max): the values of
\* Math.floor(Math.random() * (max - min + 1) + min).
GetRandomInterval(min, max) == min..max

\* The next interval is drawn after a delivery that processMessage returned
\* {ack, success} for.
SetsNextInterval(d) == d.action = "ack" /\ d.reason = "success"

\* config: the interval range of the queue in the table of active consumers,
\* or NoRange; interval: queueIntervals.get(queue); inv: the invocation of
\* the message handler in flight (prefetch is 1), with the range its closure
\* holds and the time it sleeps; last: what its processMessage returned.
IdleInvocation == [pc |-> "idle", range |-> NoRange, slept |-> NoInterval]
IdlePacing == [config |-> NoRange, interval |-> NoInterval, inv |-> IdleInvocation,
               last |-> NoDisposition]

\* startConsuming(): the configuration is set in the table and the first
\* interval drawn.
PaceStart(r, v) ==
    /\ pacing.config = NoRange
    /\ v \in GetRandomInterval(r.min, r.max)
    /\ pacing' = [pacing EXCEPT !.config = r, !.interval = v, !.last = NoDisposition]

\* stopConsuming(): the queue leaves the table and queueIntervals.
PaceStop ==
    /\ pacing.config # NoRange
    /\ pacing' = [pacing EXCEPT !.config = NoRange, !.interval = NoInterval,
                                !.last = NoDisposition]

\* A delivery reaches the message handler of the subscription: it reads the
\* interval and sleeps it.
PaceDeliver ==
    /\ pacing.config # NoRange
    /\ pacing.inv.pc = "idle"
    /\ pacing' = [pacing EXCEPT
           !.inv = [pc |-> IF pacing.interval # NoInterval THEN "sleep" ELSE "process",
                    range |-> pacing.config, slept |-> pacing.interval],
           !.last = NoDisposition]

\* The sleep is over: processMessage is called.
PaceSleepDone ==
    /\ pacing.inv.pc = "sleep"
    /\ pacing' = [pacing EXCEPT !.inv.pc = "process", !.last = NoDisposition]

\* processMessage returned d: the handler draws the next interval from the
\* range of its closure after {ack, success}.
PaceReturn(d, v) ==
    /\ pacing.inv.pc = "process"
    /\ IF SetsNextInterval(d)
       THEN v \in GetRandomInterval(pacing.inv.range.min, pacing.inv.range.max)
       ELSE v = pacing.interval
    /\ pacing' = [pacing EXCEPT !.interval = v, !.inv = IdleInvocation, !.last = d]

NextPacing ==
    \/ \E r \in Ranges, v \in 1..4 :
          PaceStart(r, v) /\ EngineIdle /\ UNCHANGED <<psVars, whVars, chVars, auxVars>>
    \/ PaceStop /\ EngineIdle /\ UNCHANGED <<psVars, whVars, chVars, auxVars>>
    \/ PaceDeliver /\ EngineIdle /\ UNCHANGED <<psVars, whVars, chVars, auxVars>>
    \/ PaceSleepDone /\ EngineIdle /\ UNCHANGED <<psVars, whVars, chVars, auxVars>>
    \/ \E d \in Dispositions, v \in 0..4 :
          PaceReturn(d, v) /\ EngineIdle /\ UNCHANGED <<psVars, whVars, chVars, auxVars>>

\* ------------------------------------- safeChannelOperation, on its own

\* What a channel operation throws: an error with a code (0: the error has
\* no code) and a message, which is known by the phrases it includes.
Phrases == {"Channel closed", "Connection closed", "Connection lost", "Socket closed",
            "ECONNRESET", "ENOTFOUND", "ETIMEDOUT",
            "NOT_FOUND", "does not exist", "delivery tag"}
Codes == {0, 403, 404, 406, 504, 505, 506}
Errors == [code : Codes, message : SUBSET Phrases]
NoError == [code |-> 0, message |-> {}]

\* error.message.includes(pattern)
Includes(message, pattern) == pattern \in message

connectionErrors == {"Channel closed", "Connection closed", "Connection lost",
                     "Socket closed", "ECONNRESET", "ENOTFOUND", "ETIMEDOUT"}
protocolErrors(error) == error.code \in {504, 505, 506}
queueSpecificErrors(error) ==
    \/ error.code = 404 /\ Includes(error.message, "NOT_FOUND")
    \/ Includes(error.message, "does not exist")
    \/ error.code = 403

\* _shouldTriggerReconnection(error)
ShouldTriggerReconnection(error) ==
    IF queueSpecificErrors(error) THEN FALSE
    ELSE IF protocolErrors(error) THEN TRUE
    ELSE \E errorPattern \in connectionErrors : Includes(error.message, errorPattern)

NoOpCall == [pc |-> "none", ready |-> FALSE, ran |-> FALSE, error |-> NoError,
             raised |-> FALSE, emits |-> {}]

\* One call of safeChannelOperation(operation) on a channel that is ready or
\* not; the operation, when it runs, returns (threw = FALSE) or throws `error`.
SafeChannelOperation(ready, threw, error) ==
    /\ opCall.pc = "none"
    /\ ~threw => error = NoError
    /\ opCall' =
          IF ~ready
          THEN [pc |-> "done", ready |-> FALSE, ran |-> FALSE, error |-> NoError,
                raised |-> TRUE, emits |-> {"needsReconnection"}]
          ELSE [pc |-> "done", ready |-> TRUE, ran |-> TRUE, error |-> error,
                raised |-> threw,
                emits |-> IF threw /\ ShouldTriggerReconnection(error)
                          THEN {"needsReconnection"} ELSE {}]

NextOperation ==
    \E ready \in BOOLEAN, threw \in BOOLEAN, error \in Errors :
        /\ SafeChannelOperation(ready, threw, error)
        /\ EngineIdle
        /\ UNCHANGED <<psVars, whVars, chVars, paceVars, vcCall, dedup, psOps>>

\* ------------------------------ the validation of startConsuming, on its own

\* A JavaScript value that is used as a number: a number, undefined, a text
\* that is not a number (Math.max and + make it NaN), or NaN.
Num(n) == [kind |-> "number", v |-> n]
Undefined0 == [kind |-> "undefined", v |-> 0]
Text == [kind |-> "text", v |-> 0]
NaN == [kind |-> "NaN", v |-> 0]
\* The intervals a request carries, in milliseconds.
IntervalInputs == {Undefined0, Text} \cup {Num(n) : n \in {0, 500, 1000, 1500, 120000}}
defaultIntervals == [min |-> 30000, max |-> 110000]

\* x || d
OrDefault(x, d) == IF x.kind = "undefined" \/ (x.kind = "number" /\ x.v = 0) \/ x.kind = "NaN"
                   THEN Num(d) ELSE x
\* Math.max(a, b)
MathMax(a, b) == IF a.kind = "number" /\ b.kind = "number"
                 THEN Num(IF a.v >= b.v THEN a.v ELSE b.v) ELSE NaN
\* a + n
Plus(a, n) == IF a.kind = "number" THEN Num(a.v + n) ELSE NaN
\* a >= b
Gte(a, b) == a.kind = "number" /\ b.kind = "number" /\ a.v >= b.v

\* sanitizeIntervals(minInterval, maxInterval)
SanitizeIntervals(minInterval, maxInterval) ==
    LET min == MathMax(Num(1000), OrDefault(minInterval, defaultIntervals.min))
        max == MathMax(Plus(min, 1000), OrDefault(maxInterval, defaultIntervals.max))
    IN [min |-> min, max |-> max]

\* The queue names a request carries; queue.trim() of each.
NameInputs == {"q1", "", " "}
Trim(queue) == IF queue = " " THEN "" ELSE queue
\* isValidQueueName(queue), of a string
IsValidQueueName(queue) == Trim(queue) # ""

\* The webhooks a request carries: how the text starts, and whether
\* new URL(text) accepts it.
WebhookInputs == {[starts |-> "http://", parses |-> TRUE],
                  [starts |-> "https://", parses |-> TRUE],
                  [starts |-> "http://", parses |-> FALSE],
                  [starts |-> "ftp://", parses |-> TRUE],
                  [starts |-> "", parses |-> FALSE]}
\* isValidUrl(string)
IsValidUrl(string) == string.parses /\ string.starts \in {"http://", "https://"}

\* The businessHours a request carries: null or {start, end}.
HourInputs == {-2, 0, 8, 23, 24}
BusinessHoursInputs == {NoBusinessHours} \cup [start : HourInputs, end : HourInputs]

\* validateQueueConfig(config): the errors and the sanitized intervals.
ValidateQueueConfig(config) ==
    LET s == SanitizeIntervals(config.minInterval, config.maxInterval)
        bh == config.businessHours
    IN [errors |->
            (IF ~IsValidQueueName(config.queue) THEN {"Invalid queue name"} ELSE {})
            \cup (IF ~IsValidUrl(config.webhook) THEN {"Invalid webhook URL"} ELSE {})
            \cup (IF Gte(s.min, s.max)
                  THEN {"Minimum interval must be less than maximum interval"} ELSE {})
            \cup (IF bh # NoBusinessHours
                     /\ (bh.start < 0 \/ bh.start > 23 \/ bh.end < 0 \/ bh.end > 23
                           \/ bh.start >= bh.end)
                  THEN {"Invalid business hours configuration"} ELSE {}),
        min |-> s.min, max |-> s.max]

ConfigInputs == [queue : NameInputs, webhook : WebhookInputs, minInterval : IntervalInputs,
                 maxInterval : IntervalInputs, businessHours : BusinessHoursInputs]
NoConfigInput == [queue |-> "", webhook |-> [starts |-> "", parses |-> FALSE],
                  minInterval |-> Undefined0, maxInterval |-> Undefined0,
                  businessHours |-> NoBusinessHours]
\* table: what activeConsumers holds for the queue; saved: what was handed
\* to saveQueueConfig; broker: the calls made to the broker client.
NoVcCall == [pc |-> "none", config |-> NoConfigInput, errors |-> {},
             min |-> NaN, max |-> NaN, table |-> {}, saved |-> {}, broker |-> {}]

\* One call of startConsuming(queue, webhook, minInterval, maxInterval,
\* businessHours) on an initialized engine that does not consume the queue,
\* up to its first await: it throws, or calls checkQueue.
StartValidates(config) ==
    /\ vcCall.pc = "none"
    /\ LET validation == ValidateQueueConfig(config)
       IN vcCall' = [vcCall EXCEPT
              !.pc = IF validation.errors = {} THEN "check" ELSE "rejected",
              !.config = config,
              !.errors = validation.errors,
              !.min = validation.min,
              !.max = validation.max,
              !.broker = IF validation.errors = {} THEN {"checkQueue"} ELSE {}]

\* checkQueue and createConsumer returned: the configuration enters the
\* table and is handed to saveQueueConfig.
StartStores ==
    /\ vcCall.pc = "check"
    /\ vcCall' = [vcCall EXCEPT
           !.pc = "started",
           !.broker = @ \cup {"createConsumer"},
           !.table = {[minInterval |-> vcCall.min, maxInterval |-> vcCall.max]},
           !.saved = {[minInterval |-> vcCall.min, maxInterval |-> vcCall.max]}]

NextValidate ==
    \/ \E config \in ConfigInputs :
          StartValidates(config) /\ EngineIdle
          /\ UNCHANGED <<psVars, whVars, chVars, paceVars, opCall, dedup, psOps>>
    \/ StartStores /\ EngineIdle /\ UNCHANGED <<psVars, whVars, chVars, paceVars, opCall, dedup, psOps>>

\* ----------------------------------- the processed set, on its own

\* The fingerprints that are marked: more than the set may keep.
Fingerprints == 1..(MaxProcessed + 3)
\* processed: the set in insertion order; op: the last operation on it;
\* before: the set before that operation.
NoDedup == [processed |-> <<>>, op |-> "none", before |-> <<>>]

\* markMessageProcessed(f)
DedupMark(f) ==
    dedup' = [processed |-> MarkMessageProcessed(dedup.processed, f), op |-> "mark",
              before |-> dedup.processed]

\* The cleanup interval fires: cleanupOldMessages().
DedupCleanupTick ==
    dedup' = [processed |-> CleanupOldMessages(dedup.processed), op |-> "tick",
              before |-> dedup.processed]

NextDedup ==
    \/ \E f \in Fingerprints :
          DedupMark(f) /\ EngineIdle
          /\ UNCHANGED <<psVars, whVars, chVars, paceVars, opCall, vcCall, psOps>>
    \/ DedupCleanupTick /\ EngineIdle
       /\ UNCHANGED <<psVars, whVars, chVars, paceVars, opCall, vcCall, psOps>>

\* ----------------------- mutations of the store that run at the same time

\* Two invocations of saveQueueConfig / removeQueueConfig.  seen: what
\* loadData() read; overlapped: the other invocation was between its read and
\* its write when this one read.
Mutators == {1, 2}
IdleMutation == [pc |-> "idle", op |-> "none", q |-> "-", cfg |-> "-", seen |-> NoFile,
                 overlapped |-> FALSE]

\* saveQueueConfig(q, cfg) or removeQueueConfig(q) up to the end of its read:
\* fs.readFile has read the file.
MutationReads(i, op, q, cfg) ==
    /\ isReady
    /\ psOps[i].pc = "idle"
    /\ op = "remove" <=> cfg = "-"
    /\ psOps' = [psOps EXCEPT ![i] =
           [pc |-> "read", op |-> op, q |-> q, cfg |-> cfg, seen |-> files["main"],
            overlapped |-> \E j \in Mutators \ {i} : psOps[j].pc = "read"]]
    /\ UNCHANGED psVars

\* The invocation changes the document it read and fs.writeFile writes it (a
\* remove that found no entry writes nothing); the call returns.
MutationWrites(i, t) ==
    /\ psOps[i].pc = "read"
    /\ LET m == psOps[i]
           o == IF m.op = "save" THEN SaveQueueConfig(TRUE, m.seen, m.q, m.cfg, t, TRUE)
                ELSE RemoveQueueConfig(TRUE, m.seen, m.q, t, TRUE)
       IN files' = IF m.op = "remove" /\ o.ret = "false" THEN files
                   ELSE [files EXCEPT !["main"] = o.main]
    /\ psOps' = [psOps EXCEPT ![i].pc = "done"]
    /\ UNCHANGED <<isReady, psCall>>

NextOverlap ==
    \/ \E t \in Times :
          PsInit(t) /\ EngineIdle
          /\ UNCHANGED <<whVars, chVars, paceVars, opCall, vcCall, dedup, psOps>>
    \/ \E i \in Mutators, op \in {"save", "remove"}, q \in StoreNames,
          cfg \in Configs \cup {"-"} :
          MutationReads(i, op, q, cfg) /\ EngineIdle
          /\ UNCHANGED <<whVars, chVars, paceVars, opCall, vcCall, dedup>>
    \/ \E i \in Mutators, t \in Times :
          MutationWrites(i, t) /\ EngineIdle
          /\ UNCHANGED <<whVars, chVars, paceVars, opCall, vcCall, dedup>>

InitAux ==
    /\ opCall = NoOpCall
    /\ vcCall = NoVcCall
    /\ dedup = NoDedup
    /\ psOps = [i \in Mutators |-> IdleMutation]

\* The configurations a previous run left in the queue store.
StoredAtStart == {{}, {"q1"}}

InitEngineStored(stored) ==
    /\ connection = "null"
    /\ channel = "null"
    /\ isConnecting = FALSE
    /\ rmqShuttingDown = FALSE
    /\ rmqListeners = SetupEventHandlers
    /\ isReconnecting = FALSE
    /\ reconnectAttempts = 0
    /\ elapsed = DebounceMs
    /\ reconnectTimeout = NoTimer
    /\ shuttingDown = FALSE
    /\ rcListeners = {"reconnectionSuccessful", "maxAttemptsReached"}
    /\ pendingTimers = {}
    /\ attSleep = 0
    /\ attConnect = 0
    /\ brokerQueues = Queues
    /\ subs = {}
    /\ isInitialized = FALSE
    /\ activeConsumers = [q \in Queues |-> Absent]
    /\ starts = [c \in Callers |-> IdleStart]
    /\ reestab = IdleReestab
    /\ restore = IdleRestore
    /\ stop = IdleStop
    /\ health = IdleHealth
    /\ cancels = {}
    /\ shutdown = IdleShutdown
    /\ engineEvents = {}
    /\ persisted \in stored
    /\ shutdownPc = "idle"
    /\ brokerMsgs = [m \in Messages |->
                        [st |-> "ready", tag |-> NoTag, redelivered |-> FALSE,
                         delivered |-> FALSE]]
    /\ nextTag = 1
    /\ handlers = [h \in HandlerIds |-> IdleHandler]
    /\ processedMessages = <<>>
    /\ processingMessages = {}
    /\ everMarked = {}
    /\ lastResult = NoResult
    /\ lastEvent = "none"
    /\ schedCalled = FALSE
    /\ emitted = {}

InitEngine == InitEngineStored(StoredAtStart)

\* The state after construction: init() of PersistenceService has not completed.
Init ==
    /\ InitEngine
    /\ isReady = FALSE
    /\ files = [f \in Paths |-> NoFile]
    /\ psCall = NoPsCall
    /\ whStats = [sent |-> 0, failed |-> 0, retries |-> 0]
    /\ whCall = IdleSend
    /\ chCall = NoChCall
    /\ pacing = IdlePacing
    /\ InitAux

ReconSteps ==
    \/ Tick
    \/ \E id \in TimerIds : TimerFires(id)
    \/ AttemptSleepDone
    \/ AttemptConnectFail
    \/ AttemptConnectOk
    \/ Initialize

EngineNext ==
    \/ ApiRestoreQueues
    \/ RestoreLoaded
    \/ \E q \in Queues : ApiStartConsuming(q)
    \/ \E c \in Callers : StartCheckDone(c)
    \/ \E c \in Callers : StartConsumeDone(c)
    \/ \E c \in Callers, ok \in {TRUE} : StartSaveDone(c, ok)
    \/ ReestabCheckDone
    \/ \E q \in {"q1"} : PauseConsuming(q)
    \/ \E q \in {"q1"} : ResumeConsuming(q)
    \/ \E q \in {"q2"} : BrokerDeletesQueue(q)

ReconNext == ReconSteps \/ \E e \in FailureEvents : BrokerFailure(e)

Next ==
    \/ ReconSteps
    \/ \E e \in {"channelClosed", "connectionClosed"} : BrokerFailure(e)
    \/ EngineNext

Spec == Init /\ [][Next]_vars

\* The controller with every failure event, queue-info requests and shutdown.
InitRecon == Init /\ persisted = {}

NextRecon ==
    \/ ReconNext
    \/ RestoreLoaded
    \/ \E q \in {"q1"} : GetQueueInfo(q)
    \/ Shutdown
    \/ ShutdownDisconnect

SpecRecon == InitRecon /\ [][NextRecon]_vars

\* The controller with forced reconnections as well.
NextForce ==
    \/ NextRecon
    \/ ForceReconnection

SpecForce == InitRecon /\ [][NextForce]_vars

\* The pipeline of the restored queue q1, across a channel loss and a reconnect.
InitPipeline == Init /\ persisted = {MsgQueue}

NextPipeline ==
    \/ ReconSteps
    \/ \E e \in {"channelClosed"} : BrokerFailure(e)
    \/ RestoreLoaded
    \/ \E c \in {"restore", "reestab"} : StartCheckDone(c)
    \/ \E c \in {"restore", "reestab"} : StartConsumeDone(c)
    \/ \E c \in {"restore", "reestab"}, ok \in {TRUE} : StartSaveDone(c, ok)
    \/ ReestabCheckDone
    \/ \E q \in {MsgQueue} : PauseConsuming(q)
    \/ \E q \in {MsgQueue} : ResumeConsuming(q)
    \/ \E m \in Messages : Deliver(m)
    \/ \E h \in HandlerIds, hour \in Hours, bh \in BusinessHoursConfigs :
          \* the hour is not compared when businessHours is null
          (bh = NoBusinessHours => hour = 8) /\ ProcessStart(h, hour, bh)
    \/ \E h \in HandlerIds, r \in Responses : WebhookResponse(h, r)
    \/ CleanupTimerFires

SpecPipeline == InitPipeline /\ [][NextPipeline]_vars

\* The pipeline of q1 within business hours, with handlers that go on: the
\* pacing sleep ends and every POST settles (axios has a timeout).
HandlerGoesOn ==
    \E h \in HandlerIds, bh \in BusinessHoursConfigs : ProcessStart(h, 8, bh)
PostGoesOn == \E h \in HandlerIds, r \in Responses : WebhookResponse(h, r)

NextAnswer ==
    \/ ReconSteps
    \/ \E e \in {"channelClosed"} : BrokerFailure(e)
    \/ RestoreLoaded
    \/ \E c \in {"restore", "reestab"} : StartCheckDone(c)
    \/ \E c \in {"restore", "reestab"} : StartConsumeDone(c)
    \/ \E c \in {"restore", "reestab"}, ok \in {TRUE} : StartSaveDone(c, ok)
    \/ ReestabCheckDone
    \/ \E m \in Messages : Deliver(m)
    \/ HandlerGoesOn
    \/ PostGoesOn

\* POST /stop of the restored queue q1 while deliveries that arrived before
\* the call are with their handlers.
NextStop ==
    \/ Initialize
    \/ RestoreLoaded
    \/ \E c \in {"restore"} : StartCheckDone(c)
    \/ \E c \in {"restore"} : StartConsumeDone(c)
    \/ \E c \in {"restore"}, ok \in {TRUE} : StartSaveDone(c, ok)
    \/ \E m \in Messages : stop.pc = "idle" /\ Deliver(m)
    \/ \E h \in HandlerIds, hour \in Hours, bh \in BusinessHoursConfigs :
          (bh = NoBusinessHours => hour = 8) /\ ProcessStart(h, hour, bh)
    \/ \E h \in HandlerIds, r \in Responses : WebhookResponse(h, r)
    \/ \E q \in {MsgQueue} : ApiStopConsuming(q)
    \/ StopCancelDone

SpecStop == InitPipeline /\ [][NextStop]_vars

\* shutdown() of an engine that consumes the restored queue q1, while the
\* controller is reconnecting after a failure of the channel or the connection.
NextLate ==
    \/ ReconSteps
    \/ \E e \in {"channelClosed", "connectionClosed"} : BrokerFailure(e)
    \/ RestoreLoaded
    \/ \E c \in {"restore"} : StartCheckDone(c)
    \/ \E c \in {"restore"} : StartConsumeDone(c)
    \/ \E c \in {"restore"}, ok \in {TRUE} : StartSaveDone(c, ok)
    \/ Shutdown
    \/ ShutdownStopDone
    \/ ShutdownDisconnect

SpecLate == InitPipeline /\ [][NextLate]_vars

SpecAnswer ==
    InitPipeline /\ [][NextAnswer]_vars /\ WF_vars(HandlerGoesOn) /\ WF_vars(PostGoesOn)

\* The life of the consumers of two queues on a channel that stays open:
\* starts and stops through the API, cancellations and deletions by the
\* broker, the health monitor and the requests on the queue store.
InitLife == Init /\ persisted = {}

NextLife ==
    \/ Initialize
    \/ RestoreLoaded
    \/ \E q \in Queues : ApiStartConsuming(q)
    \/ \E c \in {"api"} : StartCheckDone(c)
    \/ \E c \in {"api"} : StartConsumeDone(c)
    \/ \E c \in {"api"}, ok \in BOOLEAN : StartSaveDone(c, ok)
    \/ \E q \in {"q2"} : ApiStopConsuming(q)
    \/ StopCancelDone
    \/ \E q \in {"q2"} : ConsumerCancelled(q)
    \/ \E q \in {"q2"}, ok \in BOOLEAN : CancelRemoveDone(q, ok)
    \/ \E q \in {"q1"} : BrokerDeletesQueue(q)
    \/ HealthTick
    \/ HealthCheckDone
    \/ \E ok \in BOOLEAN : HealthLoadDone(ok)
    \/ \E ok \in BOOLEAN : HealthWriteDone(ok)
    \/ HealthNotifyDone
    \/ ClearConfigs
    \/ \E q \in {"q2"} : RemovePersistedQueue(q)

SpecLife == InitLife /\ [][NextLife]_vars

\* Stops of the consumers of two queues started through the API, by POST /stop
\* and by shutdown(), on a channel that can close while a cancel is awaited.
\* The rejection of a pending cancel resumes stopConsuming in the microtasks of
\* the close of the channel, before the signal handler can call shutdown().
NextCancel ==
    \/ Initialize
    \/ RestoreLoaded
    \/ \E q \in Queues : ApiStartConsuming(q)
    \/ \E c \in {"api"} : StartCheckDone(c)
    \/ \E c \in {"api"} : StartConsumeDone(c)
    \/ \E c \in {"api"}, ok \in BOOLEAN : StartSaveDone(c, ok)
    \/ \E e \in {"channelClosed"} : BrokerFailure(e)
    \/ \E q \in Queues : shutdownPc = "idle" /\ ApiStopConsuming(q)
    \/ StopCancelDone
    \/ ~stop.dead /\ Shutdown
    \/ ShutdownStopDone
    \/ ShutdownDisconnect

SpecCancel == InitLife /\ [][NextCancel]_vars

\* shutdown() of an engine that consumes the restored queue q1 and a queue q2
\* started through the API, with deliveries of q1 in flight.
InitShutdown == Init /\ persisted = {MsgQueue}

NextShutdown ==
    \/ Initialize
    \/ RestoreLoaded
    \/ \E q \in {"q2"} : ApiStartConsuming(q)
    \/ \E c \in {"restore", "api"} : StartCheckDone(c)
    \/ \E c \in {"restore", "api"} : StartConsumeDone(c)
    \/ \E c \in {"restore", "api"}, ok \in {TRUE} : StartSaveDone(c, ok)
    \/ \E m \in Messages : Deliver(m)
    \/ \E h \in HandlerIds, hour \in Hours, bh \in BusinessHoursConfigs :
          \* the hour is not compared when businessHours is null
          (bh = NoBusinessHours => hour = 8) /\ ProcessStart(h, hour, bh)
    \/ \E h \in HandlerIds, r \in Responses : WebhookResponse(h, r)
    \/ Shutdown
    \/ ShutdownStopDone
    \/ ShutdownDedupDone
    \/ ShutdownDisconnect

SpecShutdown == InitShutdown /\ [][NextShutdown]_vars

\* PersistenceService on its own: calls that run one after another, with a
\* backup file that the service wrote or that someone else supplied.
BackupsSupplied ==
    {NoFile} \cup {Document(1, QueuesOf(type, EmptyMap)) :
                     type \in {"array", "string", "null", "missing"}}

InitStore ==
    /\ InitEngine
    /\ persisted = {}
    /\ isReady = FALSE
    /\ files \in {[f \in Paths |-> IF f = "main" THEN NoFile ELSE b] : b \in BackupsSupplied}
    /\ psCall = NoPsCall
    /\ whStats = [sent |-> 0, failed |-> 0, retries |-> 0]
    /\ whCall = IdleSend
    /\ chCall = NoChCall
    /\ pacing = IdlePacing
    /\ InitAux

\* WebhookService on its own: calls of sendWebhookWithRetry one after another.
NextRetry ==
    \/ SendWebhookWithRetry /\ EngineIdle /\ UNCHANGED <<psVars, chVars, paceVars, auxVars>>
    \/ \E r \in Responses : PostSettles(r) /\ EngineIdle /\ UNCHANGED <<psVars, chVars, paceVars, auxVars>>

SpecRetry == Init /\ [][NextRetry]_vars

SpecPacing == Init /\ [][NextPacing]_vars

SpecOperation == Init /\ [][NextOperation]_vars

SpecValidate == Init /\ [][NextValidate]_vars

SpecDedup == Init /\ [][NextDedup]_vars

SpecOverlap == Init /\ [][NextOverlap]_vars

\* ackMessage and nackMessage on the deliveries of the restored queue q1, on a
\* channel that is open or lost.
NextAck ==
    \/ Initialize
    \/ RestoreLoaded
    \/ \E c \in {"restore"} : StartCheckDone(c)
    \/ \E c \in {"restore"} : StartConsumeDone(c)
    \/ \E c \in {"restore"}, ok \in {TRUE} : StartSaveDone(c, ok)
    \/ \E m \in Messages : Deliver(m)
    \/ \E e \in {"channelClosed", "connectionError"} : BrokerFailure(e)
    \/ \E op \in {"ack", "nack"}, tag \in DeliveryTags, fault \in Faults :
          AckNackCall(op, tag, fault)

SpecAck == InitPipeline /\ [][NextAck]_vars

\* The health monitor of an engine whose queues are started through the API,
\* with queues deleted at the broker and the channel lost.
NextHealth ==
    \/ Initialize
    \/ RestoreLoaded
    \/ \E q \in Queues : ApiStartConsuming(q)
    \/ \E c \in {"api"} : StartCheckDone(c)
    \/ \E c \in {"api"} : StartConsumeDone(c)
    \/ \E c \in {"api"}, ok \in {TRUE} : StartSaveDone(c, ok)
    \/ \E q \in {"q1"} : BrokerDeletesQueue(q)
    \/ \E e \in {"channelClosed", "connectionClosed"} : BrokerFailure(e)
    \/ HealthTick
    \/ HealthCheckDone
    \/ \E ok \in BOOLEAN : HealthLoadDone(ok)
    \/ \E ok \in BOOLEAN : HealthWriteDone(ok)
    \/ HealthNotifyDone

SpecHealth == InitLife /\ [][NextHealth]_vars

\* restorePersistedQueues() over a store of up to two entries, with queues
\* deleted at the broker, queues started through the API, and a channel loss.
InitRestore ==
    /\ InitEngineStored(SUBSET Queues)
    /\ isReady = FALSE
    /\ files = [f \in Paths |-> NoFile]
    /\ psCall = NoPsCall
    /\ whStats = [sent |-> 0, failed |-> 0, retries |-> 0]
    /\ whCall = IdleSend
    /\ chCall = NoChCall
    /\ pacing = IdlePacing
    /\ InitAux

NextRestore ==
    \/ Initialize
    \/ ApiRestoreQueues
    \/ RestoreLoaded
    \/ \E q \in Queues : ApiStartConsuming(q)
    \/ \E c \in {"api", "restore"} : StartCheckDone(c)
    \/ \E c \in {"api", "restore"} : StartConsumeDone(c)
    \/ \E c \in {"api", "restore"}, ok \in BOOLEAN : StartSaveDone(c, ok)
    \/ \E q \in Queues : BrokerDeletesQueue(q)
    \/ \E e \in {"channelClosed"} : BrokerFailure(e)

SpecRestore == InitRestore /\ [][NextRestore]_vars

\* The control calls of the HTTP API on a running engine.
NextControl ==
    \/ Initialize
    \/ RestoreLoaded
    \/ \E q \in Queues : ApiStartConsuming(q)
    \/ \E c \in {"api"} : StartCheckDone(c)
    \/ \E c \in {"api"} : StartConsumeDone(c)
    \/ \E c \in {"api"}, ok \in BOOLEAN : StartSaveDone(c, ok)
    \/ \E q \in Queues : ApiPauseConsuming(q)
    \/ \E q \in Queues : ApiResumeConsuming(q)
    \/ \E q \in Queues : ApiStopConsuming(q)
    \/ StopCancelDone

SpecControl == InitLife /\ [][NextControl]_vars

NextStore ==
    \/ \E t \in Times : PsInit(t) /\ EngineIdle /\ UNCHANGED <<whVars, chVars, paceVars, auxVars>>
    \/ \E q \in StoreNames, cfg \in Configs, t \in Times, ok \in BOOLEAN :
          PsSave(q, cfg, t, ok) /\ EngineIdle /\ UNCHANGED <<whVars, chVars, paceVars, auxVars>>
    \/ \E q \in StoreNames, t \in Times, ok \in BOOLEAN :
          PsRemove(q, t, ok) /\ EngineIdle /\ UNCHANGED <<whVars, chVars, paceVars, auxVars>>
    \/ \E t \in Times, ok \in BOOLEAN :
          PsClear(t, ok) /\ EngineIdle /\ UNCHANGED <<whVars, chVars, paceVars, auxVars>>
    \/ \E t \in Times, ok \in BOOLEAN :
          PsBackup(t, ok) /\ EngineIdle /\ UNCHANGED <<whVars, chVars, paceVars, auxVars>>
    \/ \E ok \in BOOLEAN :
          PsRestore(ok) /\ EngineIdle /\ UNCHANGED <<whVars, chVars, paceVars, auxVars>>

SpecStore == InitStore /\ [][NextStore]_vars

\* ------------------------------------------------------------------- claims

\* C1: in every reachable state every queue has at most one subscription that
\* the engine registered at the broker and did not cancel.
C1_AtMostOneSubscription ==
    \A q \in Queues : Cardinality({s \in subs : s.queue = q}) <= 1

\* The step returned from processMessage after the webhook dispatch.
ReturnedFromWebhook ==
    lastResult.reason \in {"success", "webhook_retry", "webhook_permanent_error"}

\* C2: a dispatch the webhook answered with 4xx returns {ack,
\* webhook_permanent_error} with failed incremented and an ack; one answered
\* with a status >= 500, or not at all, on its last attempt returns {nack,
\* webhook_retry} with a nack.
C2_WebhookDisposition ==
    ReturnedFromWebhook =>
        /\ IsClientError(lastResult.response) =>
              /\ lastResult.action = "ack"
              /\ lastResult.reason = "webhook_permanent_error"
              /\ "failed" \in lastResult.inc
              /\ lastResult.calls = {"ack"}
        /\ (lastResult.response = NoResponse \/ lastResult.response >= 500) =>
              /\ lastResult.action = "nack"
              /\ lastResult.reason = "webhook_retry"
              /\ lastResult.calls = {"nack"}

SkippedAsDuplicate ==
    /\ lastResult.action = "skip"
    /\ lastResult.reason = "duplicate"
    /\ lastResult.inc = {"duplicates", "skipped"}
    /\ lastResult.calls = {}

C4_OneDispositionAndNotInFlight ==
    lastResult.action # "none" =>
        /\ lastResult.action \in {"ack", "nack", "skip"}
        /\ lastResult.calls = (IF lastResult.action = "skip" THEN {}
                               ELSE {lastResult.action})
        /\ lastResult.fp \notin processingMessages

\* A call that went through the webhook dispatch returned while another call
\* on the same fingerprint is still in flight.
C4_Witness ==
    /\ ReturnedFromWebhook
    /\ \E h \in HandlerIds :
          /\ handlers[h].pc = "webhook"
          /\ GenerateMessageId(handlers[h].tag, handlers[h].msg) = lastResult.fp

\* C5: a processMessage call on a redelivered message never returns
\* {skip, duplicate}.
C5_RedeliveryNotDuplicate ==
    lastResult.redelivered => lastResult.reason # "duplicate"

\* The consumer_tag of q names a subscription that is live on the channel.
LiveIn(act, sb, ready, q) ==
    ready /\ [queue |-> q, tag |-> act[q].consumerTag] \in sb

ReconnectionPendingOrInProgress ==
    pendingTimers # {} \/ isReconnecting \/ attSleep + attConnect > 0

\* C6: every queue of the active set either has a live subscription on the
\* current channel or a reconnection attempt is pending or in progress.
C6_LiveOrReconnecting ==
    \A q \in Queues :
        activeConsumers[q].active =>
            \/ LiveIn(activeConsumers, subs, IsChannelReady, q)
            \/ ReconnectionPendingOrInProgress

\* C7: after a reconnection attempt failed while the controller is not
\* shutting down and attempts < maxAttempts, a reconnect timer is pending.
C7_FailedAttemptReschedules ==
    ("reconnectionFailed" \in emitted /\ ~shuttingDown /\ reconnectAttempts < maxAttempts)
        => pendingTimers # {}

\* C8: every connectionError, connectionClosed, channelError, channelClosed or
\* needsReconnection event emitted while the controller is not shut down calls
\* scheduleReconnection.
C8_EventCallsSchedule ==
    (lastEvent \in RmqEvents /\ ~shuttingDown) => schedCalled

C10_ReestablishRebuildsAll ==
    [][\A q \in Queues :
          (/\ \/ reestab.pc # "idle" /\ reestab'.pc = "idle" /\ reestab.saved[q].active
              \/ /\ "reconnectionSuccessful" \in emitted' /\ reestab'.pc = "idle"
                 /\ "reconnectionSuccessful" \in rcListeners /\ activeConsumers[q].active
           /\ q \in brokerQueues')
          => (/\ activeConsumers'[q].active
              /\ LiveIn(activeConsumers', subs',
                        ChannelReady(channel', connection', rmqShuttingDown'), q))]_vars

\* C11: the reestablish flow re-applies the paused value a queue had before
\* the reconnect when it has re-subscribed the queue, and a queue that was
\* paused before the reconnect dispatches no delivery to its webhook while the
\* flow runs unless it was resumed since.
C11_PausedSurvivesReconnect ==
    [][/\ (/\ starts["reestab"].pc = "save" /\ starts["reestab"].queue = MsgQueue
           /\ starts'["reestab"].pc = "idle" /\ activeConsumers'[MsgQueue].active)
          => activeConsumers'[MsgQueue].paused = reestab.saved[MsgQueue].paused
       /\ (/\ reestab.pc # "idle" /\ reestab.saved[MsgQueue].paused
           /\ (reestab.cur = MsgQueue \/ activeConsumers[MsgQueue].paused))
          => \A h \in HandlerIds :
                ~(handlers[h].pc = "start" /\ handlers'[h].pc = "webhook")]_vars

\* C12: a processMessage call entered while the configuration of the queue in
\* the table has paused = true, on a delivery whose fingerprint is not in the
\* processed set, makes no webhook call and returns {nack, paused} after a
\* nack.
C12_PausedIsNacked ==
    (lastResult.action # "none" /\ lastResult.tablePaused /\ ~lastResult.inProcessed)
        => /\ lastResult.action = "nack"
           /\ lastResult.reason = "paused"
           /\ lastResult.calls = {"nack"}
           /\ lastResult.response = NoResponse

\* C18: at most one delivery of the queue is between its entry into the
\* message handler and its ack or nack.
C18_OneDeliveryInFlight ==
    Cardinality({h \in HandlerIds : handlers[h].pc # "idle"}) <= 1

C13_ApiStopRemovesConfig ==
    \A q \in Queues :
        Event("consumerStopped", q, "api_request") \in engineEvents => q \notin persisted

\* The operations that may remove a configuration from the store: a manual
\* stop, a detected external deletion (by the health monitor, by a restore or
\* by a reestablish), clear-configs, a cleanup-orphans match and
\* DELETE /persisted-queue/:q.
RemovalReasons ==
    {"manual", "queue_deleted_externally", "restore_not_found", "reestablish_not_found",
     "clear_configs", "cleanup_orphans", "persisted_queue_delete"}

\* The step removes the configuration of q from the store by a call of
\* removeQueueConfig made for one of the reasons.
RemovedFor(q, reasons) ==
    (q \in persisted /\ q \notin persisted')
        => \E ev \in engineEvents' :
              ev.event = "removeQueueConfig" /\ ev.queue = q /\ ev.reason \in reasons

\* C14 as stated: a configuration leaves the store only by a manual stop, a
\* detected external deletion, clear-configs, a cleanup-orphans match or
\* DELETE /persisted-queue/:q.
C14_RemovedOnlyByListed ==
    [][\A q \in Queues : RemovedFor(q, RemovalReasons)]_vars

\* C15: when startConsuming(q) has returned successfully (it emitted
\* consumerStarted), the store holds a configuration of q.
C15_StartedIsPersisted ==
    \A q \in Queues, c \in Callers :
        Event("consumerStarted", q, c) \in engineEvents => q \in persisted

\* C16: when the handler of an external deletion that the health sweep
\* detected for an active queue has finished (it emitted
\* queueDeletedExternally), the queue is neither in the active set nor in the
\* store.
C16_DeletedQueueIsGone ==
    \A q \in Queues :
        Event("queueDeletedExternally", q, "config") \in engineEvents
            => ~activeConsumers[q].active /\ q \notin persisted

\* C17: no step of the handler of the external deletion of q changes the
\* entry of another queue in the active set or in the store.
C17_OtherQueuesUnaffected ==
    [][(\/ health.pc = "check" /\ health'.pc = "load"
        \/ health.pc \in {"load", "write", "notify"} /\ health' # health)
       => \A r \in Queues \ {health.cur} :
             /\ activeConsumers'[r] = activeConsumers[r]
             /\ (r \in persisted') = (r \in persisted)]_vars

\* The place of a call in the order of shutdown().
StepRank(name) ==
    CASE name = "stopQueueHealthMonitoring" -> 1
      [] name = "reconnectionService.shutdown" -> 2
      [] name = "stopConsuming" -> 3
      [] name = "messageProcessor.shutdown" -> 4
      [] name = "deduplicationService.shutdown" -> 5
      [] name = "webhookService.shutdown" -> 6
      [] name = "rabbitMQService.disconnect" -> 7

\* The calls of log are in the order of shutdown() and none is made twice.
InShutdownOrder(log) ==
    \A i, k \in DOMAIN log :
        i < k => \/ StepRank(log[i].step) < StepRank(log[k].step)
                 \/ /\ log[i].step = "stopConsuming" /\ log[k].step = "stopConsuming"
                    /\ log[i].queue # log[k].queue

\* C19: the calls of shutdown() are made in the order health monitor,
\* reconnection controller, stopConsuming(q, 'shutdown') for each queue that
\* was active, message processor, deduplication, webhook, disconnect; none is
\* made twice, whatever the number of shutdown() calls; and no step of
\* shutdown() changes the store.
C19_ShutdownOrder ==
    [][(shutdown' # shutdown \/ shutdownPc' # shutdownPc)
       => /\ InShutdownOrder(shutdown'.log)
          /\ shutdownPc' \in {"disconnect", "done"} =>
                /\ \A q \in shutdown'.queues :
                      \E i \in DOMAIN shutdown'.log :
                          shutdown'.log[i] = Step("stopConsuming", q)
                /\ \A n \in {"stopQueueHealthMonitoring", "reconnectionService.shutdown",
                               "messageProcessor.shutdown",
                               "deduplicationService.shutdown",
                               "webhookService.shutdown", "rabbitMQService.disconnect"} :
                      \E i \in DOMAIN shutdown'.log : shutdown'.log[i].step = n
          /\ persisted' = persisted]_vars

\* shutdown() was called twice, stopped two queues (with a stored
\* configuration) and has disconnected.
C19_Witness ==
    /\ shutdownPc = "done"
    /\ shutdown.calls = 2
    /\ shutdown.queues = Queues
    /\ persisted = Queues

\* C21: with the store ready and its calls run one after another, for every
\* queue name q and configuration cfg: after Save(q, cfg), LoadAll()[q] is cfg
\* with saved_at and every other name reads as before; after Save(q, cfg) and
\* Remove(q), Remove returned true and Load(q) is null; Remove of a name that
\* has no entry returns false and leaves the file as it was.
C21_SaveLoadRemove ==
    isReady =>
        \A q \in StoreNames, cfg \in Configs, t \in Times :
            LET main == files["main"]
                saved == SaveQueueConfig(TRUE, main, q, cfg, t, TRUE).main
                removed == RemoveQueueConfig(TRUE, saved, q, t, TRUE)
                absent == RemoveQueueConfig(TRUE, main, q, t, TRUE)
            IN /\ Lookup(LoadQueueConfigs(saved), q) = Entry(cfg, t)
               /\ \A o \in StoreNames \ {q} :
                     Lookup(LoadQueueConfigs(saved), o) = Lookup(LoadQueueConfigs(main), o)
               /\ removed.ret = "true"
               /\ LoadQueueConfig(removed.main, q) = Undefined
               /\ q \notin Keys(LoadQueueConfigs(main))
                     => absent.ret = "false" /\ absent.main = main

\* C22: for every content of the store, Backup, Clear, Restore leaves LoadAll()
\* as it was before the backup and Restore returns the names that were
\* stored; and a Restore of a document whose top-level queues field is
\* missing or is not a map fails and leaves the files as they were.
C22_BackupClearRestore ==
    [][/\ \A t \in Times :
            LET main == files["main"]
                backup == LoadData(main, t)
                cleared == ClearAll(main, t, TRUE).main
                restored == RestoreFromBackup(cleared, backup, TRUE)
            IN /\ ~restored.threw
               /\ LoadQueueConfigs(restored.main) = LoadQueueConfigs(main)
               /\ restored.keys = Keys(LoadQueueConfigs(main))
       /\ (psCall'.op = "restore" /\ files["backup"] # NoFile
              /\ files["backup"].queues.t # "map")
            => psCall'.threw /\ files' = files]_vars

\* The answer of the controller to the call `call` on q in the last step.
Answered(call, q, status) == Event(call, q, status) \in engineEvents'

Asked(call, q) == \E status \in {"200", "400", "404"} : Answered(call, q, status)

\* The step made no call to the broker.
NoBrokerCall ==
    /\ subs' = subs
    /\ \A ev \in engineEvents' :
          ev.event \notin {"cancelConsumer", "checkQueue", "createConsumer"}

C25_RetriesExhausted ==
    (whCall.pc \in {"resolved", "rejected"} /\ whCall.only5xx) =>
        /\ whCall.attempt = retryAttempts
        /\ whCall.pc = "rejected"
        /\ Disposition(whCall.pc, whCall.last) =
              [action |-> "nack", reason |-> "webhook_retry", inc |-> {"failed"}]
        /\ whStats.retries - whCall.was = retryAttempts - 1

\* The loop of restorePersistedQueues() advances in this step: the stored
\* configurations were loaded, or the startConsuming it awaits settled.
RestoreAdvances == restore.pc # "idle" /\ restore' # restore
RestoreReturned == restore.pc = "start" /\ starts["restore"].pc = "save"
RestoreThrew == restore.pc = "start" /\ starts["restore"].pc \in {"check", "consume"}
\* The startConsuming of the restore fails because the broker has no such queue.
RestoreThrewNotFound ==
    /\ RestoreThrew
    /\ ~starts["restore"].dead
    /\ starts["restore"].queue \notin brokerQueues
\* The entries the loop has not reached before the step.
RestoreAhead == IF restore.pc = "load" THEN SeqOf(persisted) ELSE restore.todo
RestoreTotal == IF restore.pc = "load" THEN Cardinality(persisted) ELSE restore.total
\* The result restorePersistedQueues() announced in the last step.
RestoreResults == {ev.result : ev \in {e \in engineEvents : e.event = "queuesRestored"}}
RestoreRemovals ==
    {ev.queue : ev \in {e \in engineEvents :
                            e.event = "removeQueueConfig" /\ e.reason = "restore_not_found"}}
\* The counters and the names marked for removal as the last step left them.
RestoreCounters ==
    IF restore.pc # "idle" THEN {[restored |-> restore.restored, failed |-> restore.failed,
                                  skipped |-> restore.skipped]}
    ELSE {[restored |-> r.restored, failed |-> r.failed, skipped |-> r.skipped] :
             r \in RestoreResults}
RestoreMarked == IF restore.pc # "idle" THEN restore.toRemove ELSE RestoreRemovals

AttemptBegins == reconnectAttempts' = reconnectAttempts + 1

\* C27: reconnectAttempts stays within 0..maxAttempts; an attempt, started by
\* the timer or by forceReconnection(), begins only while the controller is
\* not shutting down, no attempt is in progress, the channel is not ready and
\* the debounce time has passed since the last attempt, and it sets
\* isReconnecting, stamps the time and cleans the connection up;
\* maxAttemptsReached is emitted only when these guards pass and
\* reconnectAttempts >= maxAttempts.
C27_AttemptGuards ==
    /\ [](reconnectAttempts \in 0..maxAttempts)
    /\ [][/\ AttemptBegins =>
               /\ ~shuttingDown /\ ~isReconnecting /\ ~IsChannelReady
               /\ elapsed >= DebounceMs
               /\ isReconnecting' /\ elapsed' = 0
               /\ connection' = "null" /\ channel' = "null"
               /\ "reconnectionStarted" \in emitted'
          /\ "reconnectionStarted" \in emitted' => AttemptBegins
          /\ "maxAttemptsReached" \in emitted' =>
               /\ ~shuttingDown /\ ~isReconnecting /\ ~IsChannelReady'
               /\ elapsed >= DebounceMs
               /\ reconnectAttempts >= maxAttempts
               /\ ~AttemptBegins]_vars

\* forceReconnection() was called after the last of the allowed attempts had
\* failed and the debounce time had passed: maxAttemptsReached.
C27_Witness ==
    /\ emitted = {"maxAttemptsReached"} /\ lastEvent = "none"
    /\ reconnectAttempts = maxAttempts
    /\ reconnectTimeout = NoTimer /\ pendingTimers = {}
    /\ ~isReconnecting /\ elapsed = DebounceMs

\* C28: ackMessage and nackMessage issue no channel operation while
\* isChannelReady() is false, raise no error to their caller and emit no
\* needsReconnection, also when the channel operation fails with the 406 of
\* an unknown delivery tag.
C28_SafeAckNack ==
    chCall.op \in {"ack", "nack"} =>
        /\ ~chCall.ready => ~chCall.issued
        /\ ~chCall.raised
        /\ "needsReconnection" \notin chCall.emits

\* An acknowledgement of a delivery of the channel that was lost, made on the
\* new state of the channel: the operation is issued and fails with a 406.
C28_Witness ==
    /\ chCall.op = "ack" /\ chCall.ready /\ chCall.issued /\ chCall.fault = "406"
    /\ ~chCall.raised /\ chCall.emits = {}
    /\ lastEvent = "none"

\* What the tick and the sweep of the health monitor owe in this step, for a
\* tick that fires while `whenTicked` holds.
HealthMonitorDuties(whenTicked) ==
    /\ (HealthInterval \in engineEvents' /\ whenTicked) =>
          /\ isInitialized /\ shutdownPc = "idle"
          /\ ~IsChannelReady =>
                /\ lastEvent' = "needsReconnection"
                /\ health'.pc # "check"
    \* the checkQueue of the sweep settled
    /\ (health.pc = "check" /\ (health'.pc # "check" \/ health'.todo # health.todo)) =>
          \* it failed with 'Channel closed'
          /\ health.dead =>
                /\ lastEvent' = "needsReconnection"
                /\ health'.pc = "idle"
          \* it settled with no such error and the queue exists: the sweep
          \* goes on with the next queue
          /\ (~health.dead /\ health.cur \in brokerQueues
                 /\ health.todo # <<>> /\ IsChannelReady) =>
                /\ health'.pc = "check"
                /\ health'.cur = Head(health.todo)

C30_PacingInterval ==
    /\ [](pacing.config # NoRange =>
             pacing.interval \in pacing.config.min..pacing.config.max)
    /\ [][/\ (pacing.inv.pc = "idle" /\ pacing'.inv.pc # "idle") =>
               /\ pacing'.inv.pc = "sleep"
               /\ pacing'.inv.slept = pacing.interval
          /\ (pacing.inv.pc # "process" /\ pacing'.inv.pc = "process") =>
               pacing.inv.pc = "sleep"
          /\ (pacing.inv.pc = "process" /\ pacing'.inv.pc = "idle") =>
               IF pacing'.last = [action |-> "ack", reason |-> "success"]
               THEN pacing'.interval \in pacing.inv.range.min..pacing.inv.range.max
               ELSE pacing'.interval = pacing.interval]_vars

\* C31: an error thrown by a channel operation asks for no reconnection when
\* it is a 404 NOT_FOUND, says 'does not exist', has the code 403 or is a 406
\* delivery-tag error, whatever else its message contains; any other error
\* asks for one when its code is 504, 505 or 506 or its message contains
\* Channel closed, Connection closed, Socket closed, ECONNRESET, ENOTFOUND or
\* ETIMEDOUT.
NeverReconnects(error) ==
    \/ queueSpecificErrors(error)
    \/ error.code = 406 /\ Includes(error.message, "delivery tag")
Reconnects(error) ==
    \/ error.code \in {504, 505, 506}
    \/ error.message \cap {"Channel closed", "Connection closed", "Socket closed",
                            "ECONNRESET", "ENOTFOUND", "ETIMEDOUT"} # {}
C31_ErrorClassifier ==
    (opCall.pc = "done" /\ opCall.ran /\ opCall.raised) =>
        /\ NeverReconnects(opCall.error) => opCall.emits = {}
        /\ (~NeverReconnects(opCall.error) /\ Reconnects(opCall.error)) =>
               opCall.emits = {"needsReconnection"}

\* C32: the sanitized intervals satisfy min' >= 1000 and max' >= min' + 1000,
\* and so does every configuration startConsuming puts in the table or hands
\* to the store; the call is rejected exactly when the queue name is empty,
\* the webhook is not an http(s) URL, min' >= max', or the business hours
\* have start < 0, end > 23 or start >= end; a rejected call stores nothing
\* and makes no broker call.
WithinBounds(min, max) ==
    /\ min.kind = "number" /\ max.kind = "number"
    /\ min.v >= 1000
    /\ max.v >= min.v + 1000
MustReject(config, min, max) ==
    \/ Trim(config.queue) = ""
    \/ ~(config.webhook.parses /\ config.webhook.starts \in {"http://", "https://"})
    \/ Gte(min, max)
    \/ /\ config.businessHours # NoBusinessHours
       /\ \/ config.businessHours.start < 0
          \/ config.businessHours.end > 23
          \/ config.businessHours.start >= config.businessHours.end
C32_SanitisedAndValidated ==
    vcCall.pc # "none" =>
        /\ WithinBounds(vcCall.min, vcCall.max)
        /\ \A c \in vcCall.table \cup vcCall.saved :
               WithinBounds(c.minInterval, c.maxInterval)
        /\ (vcCall.pc = "rejected") <=> MustReject(vcCall.config, vcCall.min, vcCall.max)
        /\ vcCall.pc = "rejected" =>
               vcCall.table = {} /\ vcCall.saved = {} /\ vcCall.broker = {}

\* C33: after a cleanup tick the processed set holds at most MaxProcessed
\* fingerprints; what the tick removed is the oldest part of the set, in
\* insertion order, and what it kept is the rest in the same order; a tick
\* on a set of at most MaxProcessed fingerprints removes nothing.
Removed == Len(dedup.before) - Len(dedup.processed)
C34_EveryDeliveryAnswered ==
    \A m \in Messages :
        (brokerMsgs[m].st = "unacked") ~> (brokerMsgs[m].st # "unacked")

\* C35: an invocation of the message handler whose delivery arrived on a
\* channel that has closed since issues no ack and no nack on the channel
\* that replaced it.
StaleAnswer(h) ==
    /\ handlers[h].pc # "idle" /\ handlers'[h].pc = "idle"
    /\ handlers[h].stale
    /\ IsChannelReady
    /\ lastResult'.calls # {}
C35_NoStaleAnswer == [][\A h \in HandlerIds : ~StaleAnswer(h)]_vars

StopReturns(q) == \E e \in engineEvents' : e.event = "consumerStopped" /\ e.queue = q
WebhookCallStarts(h) == handlers[h].pc = "start" /\ handlers'[h].pc = "webhook"
C37_StoppedQueueIsQuiet ==
    [][/\ StopReturns(MsgQueue) => ~activeConsumers'[MsgQueue].active
       /\ \A h \in HandlerIds :
             WebhookCallStarts(h) => activeConsumers[MsgQueue].active]_vars

\* C38: when two mutations of distinct queues that overlapped in time have
\* both completed, the stored document reflects both: a saved queue has its
\* configuration, a removed queue has no entry.
Reflected(m) ==
    IF m.op = "save" THEN Lookup(LoadQueueConfigs(files["main"]), m.q).cfg = m.cfg
    ELSE m.q \notin Keys(LoadQueueConfigs(files["main"]))
C38_NoLostUpdate ==
    \A i, j \in Mutators :
        (/\ psOps[i].pc = "done" /\ psOps[j].pc = "done"
         /\ psOps[i].q # psOps[j].q
         /\ psOps[i].overlapped \/ psOps[j].overlapped)
        => Reflected(psOps[i]) /\ Reflected(psOps[j])

\* C39: once the reconnection controller is shut down, no connect() call is
\* started and no reconnectionSuccessful starts the reestablish flow of the
\* engine; and no connection is open once shutdown() has completed
\* disconnect().
ConnectStarts == attConnect' > attConnect
ReestablishStarts == reestab.pc = "idle" /\ reestab'.pc # "idle"
C39_QuietAfterShutdown ==
    /\ [](shutdownPc = "done" => connection # "open")
    /\ [][shuttingDown => ~ConnectStarts /\ ~ReestablishStarts]_vars

\* C40: a stopConsuming(q, reason) whose cancelConsumer fails throws and
\* leaves q in the table of active consumers, with its interval and its stored
\* configuration unchanged; so when shutdown() has completed, the table is
\* empty only if no cancel failed.
StopThrows == stop.pc = "cancel" /\ stop.dead /\ stop'.pc = "idle"
ShutdownStopThrows ==
    shutdownPc = "stop" /\ shutdown.dead /\ shutdown'.log # shutdown.log
Untouched(q) ==
    /\ activeConsumers'[q] = activeConsumers[q]
    /\ (q \in persisted') = (q \in persisted)
StopRaises == Event("stopConsuming", stop.queue, "threw") \in engineEvents'
ApiStopCompletes(q) == stop.pc = "cancel" /\ stop.queue = q /\ stop'.pc = "idle"
FailedStaysActive(q) ==
    q \in shutdown.failed /\ activeConsumers[q].active
        => activeConsumers'[q].active \/ ApiStopCompletes(q)
====
